---------------------------- MODULE Spec2Model ----------------------------
(***************************************************************************)
(* Realtime Notification Service: the priority queue (NotificationQueue),  *)
(* the delivery engine (NotificationService) and the connection registry   *)
(* (ClientManager), modelled from                                          *)
(*   src/02 - Realtime Notification Service/src/services/*.js              *)
(*                                                                         *)
(* Node.js runs one task at a time: every action below is one task (a      *)
(* public call, or the code between two timer suspensions of the           *)
(* processing loop) and is atomic.  An await on an already settled promise *)
(* only yields to the microtask queue, so the items of a batch are handled *)
(* in one task until the loop reaches a real timer (#sleep).               *)
(*                                                                         *)
(* The second program of the repository, the connection manager of         *)
(*   src/03 - MongoDB Connection Checker/src/MongoConnection.js            *)
(* is modelled in the section "MongoConnection" with variables of its own. *)
(***************************************************************************)
EXTENDS Integers, Sequences, FiniteSets, Bags, TLC

(***************************************************************************)
(* Configuration (config.js) and the bounds of the model.                  *)
(***************************************************************************)
MaxQueueSize == 3          \* notification.maxQueueSize (default 10000), scaled down
BatchSize == 2             \* notification.batchSize (default 100), scaled down
MessageExpiry == 2         \* notification.messageExpiry (default 24h), in clock ticks
RetryAttempts == 3         \* notification.retryAttempts
MaxClientsPerApiKey == 1   \* client.maxClientsPerApiKey (default 1000), scaled down
DefaultPriority == 5       \* notification.priority || 5
MinPriority == 1
MaxPriority == 10

MaxTime == 2               \* the clock runs 0..MaxTime
MaxIds == 4                \* notification ids handed out per run
MaxLoops == 2              \* concurrent #processQueue invocations the model can hold
MaxProcessed == RetryAttempts + 2   \* cap of the per-notification processing counter
MaxTotalConnections == 2   \* cap of a key's lifetime connection counter

\* MongoConnection.#reconnectConfig (the defaults, MONGODB_* unset)
ReconnectEnabled == TRUE   \* enabled: MONGODB_AUTO_RECONNECT !== 'false'
MaxAttempts == 3           \* maxAttempts (default 10), scaled down
InitialDelayMs == 1000     \* initialDelayMs
MaxDelayMs == 3000         \* maxDelayMs (default 30000), scaled down
BackoffMultiplier == 2     \* backoffMultiplier
MaxAttemptCount == MaxAttempts + 2  \* cap of connectionAttempts
MaxConnects == 2           \* mongoose.connect() calls the model holds in flight
MaxPendingTimers == 3      \* pending reconnect timeouts the model holds
\* #reconnectTimer = null
NoTimer == 0

\* JavaScript's undefined, for an optional number (a priority, a batch size)
Undefined == -1
\* no excluded connection (metadata.excludeConnection = null)
NoConnection == "none"
\* the data of a notification: missing (any falsy value), a payload, and a
\* payload JSON.stringify throws on (a circular object, a BigInt)
NoData == ""
Payload == "d"
Cyclic == "cyclic"

KeyIds == {"k1", "k2"}
ConnIds == {"c1", "c2"}
Channels == {"x", "y"}

VARIABLES
  queue,        \* NotificationQueue.#queue: sequence of queue items
  now,          \* Date.now(), in ticks
  apiKeys,      \* ClientManager.#apiKeys: key -> [connections, totalConnections, totalNotifications]
  connections,  \* ClientManager.#connections: connectionId -> [apiKey, channels]
  wsServer,     \* NotificationService.#wsServer is set
  processing,   \* NotificationService.#processing
  loops,        \* the #processQueue invocations: loop -> [pc, batch, cur]
  nextId,       \* number of notification ids handed out so far (uuidv4: always fresh)
  processed,    \* number of #processNotification calls on the first notification
  unhandled,    \* a rejection escaped #processQueue (process-level unhandledRejection)
  lastOp,       \* the last call that had a caller, and what it returned or raised
  clients,      \* NotificationWebSocketServer.#clients: connectionId -> socket
  closed,       \* the connection ids whose socket is gone (uuidv4: never handed out again)
  outbox,       \* connectionId -> the notification messages written to its socket
  revokedConns, \* the connection ids that were attributed to a key when it was revoked
  mongoConnection, \* MongoConnection: #connectionState and #reconnectTimer
  mongoose,     \* the driver: readyState, pending connect() and disconnect() promises, listeners
  timers,       \* the pending setTimeout callbacks of #scheduleReconnect: a bag of delays
  disconnectDone \* disconnect() has completed and connect() has not been called since

mongoVars == <<mongoConnection, mongoose, timers, disconnectDone>>

vars == <<queue, now, apiKeys, connections, wsServer, processing,
          loops, nextId, processed, unhandled, lastOp, clients, closed, outbox,
          revokedConns, mongoVars>>

\* the variables of the notification service
serviceVars == <<queue, now, apiKeys, connections, wsServer, processing,
                 loops, nextId, processed, unhandled, lastOp, clients, closed, outbox,
                 revokedConns>>

registryVars == <<apiKeys, connections, revokedConns>>
engineVars == <<wsServer, processing, loops, nextId, processed, unhandled>>
serverVars == <<clients, closed, outbox>>
protocolVars == <<apiKeys, connections, clients, closed>>

LoopIds == 1..MaxLoops

(***************************************************************************)
(* NotificationQueue                                                       *)
(***************************************************************************)

\* #validateNotification: the error it throws, "none" when it returns.
\* A notification is [id, channel, data, priority, metadata]; a missing id is 0,
\* a missing channel "", missing data NoData (all falsy in JavaScript).
validateNotification(n) ==
  IF n.id = 0 THEN "ValidationError"
  ELSE IF n.channel = "" THEN "ValidationError"
  ELSE IF n.data = NoData THEN "ValidationError"
  ELSE IF n.priority # Undefined /\ (n.priority < MinPriority \/ n.priority > MaxPriority)
       THEN "ValidationError"
  ELSE "none"

\* the comparator of #sortQueue: negative when a sorts before b
CompareLowFirst(a, b) ==
  IF b.priority # a.priority THEN a.priority - b.priority
  ELSE a.enqueuedAt - b.enqueuedAt

CompareNewestFirst(a, b) ==
  IF b.priority # a.priority THEN b.priority - a.priority
  ELSE b.enqueuedAt - a.enqueuedAt

Compare(a, b) ==
  IF b.priority # a.priority THEN b.priority - a.priority
  ELSE a.enqueuedAt - b.enqueuedAt

\* Array.prototype.sort is a stable sort: elements that compare equal keep
\* their order.  Insertion sort from the left is the same permutation.
RECURSIVE InsertStable(_, _)
InsertStable(x, s) ==
  IF s = <<>> THEN <<x>>
  ELSE IF Compare(Head(s), x) > 0 THEN <<x>> \o s
  ELSE <<Head(s)>> \o InsertStable(x, Tail(s))

RECURSIVE sortQueue(_)
sortQueue(q) ==
  IF q = <<>> THEN <<>>
  ELSE InsertStable(q[Len(q)], sortQueue(SubSeq(q, 1, Len(q) - 1)))

\* this.#queue.filter(item => item.expiresAt > now)
RECURSIVE FilterUnexpired(_, _)
FilterUnexpired(q, t) ==
  IF q = <<>> THEN <<>>
  ELSE IF Head(q).expiresAt > t THEN <<Head(q)>> \o FilterUnexpired(Tail(q), t)
  ELSE FilterUnexpired(Tail(q), t)

\* the capacity check of enqueue
QueueFullOffByOne(q) == Len(q) > MaxQueueSize

QueueFull(q) == Len(q) >= MaxQueueSize

\* enqueue(notification) at time t.  Returns [err, queue, pushed].
enqueue(q, n, t) ==
  IF validateNotification(n) # "none"
    THEN [err |-> validateNotification(n), queue |-> q, pushed |-> FALSE]
  ELSE IF QueueFull(q)
    THEN [err |-> "QueueFullError", queue |-> q, pushed |-> FALSE]
  ELSE LET item == [id |-> n.id,
                    notification |-> n,
                    priority |-> IF n.priority = Undefined \/ n.priority = 0
                                 THEN DefaultPriority ELSE n.priority,
                    enqueuedAt |-> t,
                    expiresAt |-> t + MessageExpiry,
                    attempts |-> 0]
       IN [err |-> "none", queue |-> sortQueue(Append(q, item)), pushed |-> TRUE]

\* dequeue without the expiry filter
dequeueNoFilter(q, t) ==
  IF q = <<>> THEN [items |-> <<>>, queue |-> <<>>]
  ELSE [items |-> <<Head(q)>>, queue |-> Tail(q)]

\* dequeue() at time t.  Returns [items, queue]: items is <<item>> or <<>> (null).
dequeue(q, t) ==
  LET live == FilterUnexpired(q, t)
  IN IF live = <<>> THEN [items |-> <<>>, queue |-> <<>>]
     ELSE [items |-> <<Head(live)>>, queue |-> Tail(live)]

\* the loop of dequeueBatch: k more calls of dequeue
RECURSIVE DequeueTimes(_, _, _, _)
DequeueTimes(k, q, t, acc) ==
  IF k = 0 THEN [items |-> acc, queue |-> q]
  ELSE LET d == dequeue(q, t)
       IN DequeueTimes(k - 1, d.queue, t, acc \o d.items)

Min(a, b) == IF a < b THEN a ELSE b

\* dequeueBatch(size): Math.min(size || batchSize, this.#queue.length) calls
dequeueBatch(q, size, t) ==
  LET wanted == IF size = Undefined \/ size = 0 THEN BatchSize ELSE size
  IN DequeueTimes(Min(wanted, Len(q)), q, t, <<>>)

\* peek()
peek(q) == IF q = <<>> THEN <<>> ELSE <<q[1]>>

\* getStats() at time t.  priorityDistribution has a key for every priority
\* that occurs in the queue; utilizationPercent is in hundredths of a
\* percent, rounded as toFixed(2) rounds.
getStats(q, t) ==
  [size |-> Len(q),
   maxSize |-> MaxQueueSize,
   utilizationPercent |-> (2 * 10000 * Len(q) + MaxQueueSize) \div (2 * MaxQueueSize),
   priorityDistribution |->
     [p \in {q[i].priority : i \in DOMAIN q} |->
        Cardinality({i \in DOMAIN q : q[i].priority = p})],
   oldestMessage |-> IF Len(q) > 0 THEN t - q[Len(q)].enqueuedAt ELSE 0]

(***************************************************************************)
(* ClientManager                                                           *)
(***************************************************************************)

\* validateApiKey: the error it throws, "none" when it returns true.
\* A missing key is "" (falsy).
validateApiKey(keys, apiKey) ==
  IF apiKey = "" THEN "AuthenticationError"
  ELSE IF apiKey \notin DOMAIN keys THEN "AuthenticationError"
  ELSE "none"

\* m without the entry of k (Map.delete)
MapDelete(m, k) == [x \in (DOMAIN m) \ {k} |-> m[x]]

\* m with the entry k -> v (Map.set)
MapSet(m, k, v) == [x \in (DOMAIN m) \cup {k} |-> IF x = k THEN v ELSE m[x]]

\* registerConnection without the per-key limit
registerNoLimit(keys, conns, c, k) ==
  IF validateApiKey(keys, k) # "none"
    THEN [err |-> validateApiKey(keys, k), apiKeys |-> keys, connections |-> conns]
  ELSE [err |-> "none",
        apiKeys |-> [keys EXCEPT ![k].connections = @ \cup {c},
                                 ![k].totalConnections = @ + 1],
        connections |-> MapSet(conns, c, [apiKey |-> k, channels |-> {}])]

\* registerConnection(connectionId, apiKey).  Returns [err, apiKeys, connections].
registerConnection(keys, conns, c, k) ==
  IF validateApiKey(keys, k) # "none"
    THEN [err |-> validateApiKey(keys, k), apiKeys |-> keys, connections |-> conns]
  ELSE IF Cardinality(keys[k].connections) >= MaxClientsPerApiKey
    THEN [err |-> "ValidationError", apiKeys |-> keys, connections |-> conns]
  ELSE [err |-> "none",
        apiKeys |-> [keys EXCEPT ![k].connections = @ \cup {c},
                                 ![k].totalConnections = @ + 1],
        connections |-> MapSet(conns, c, [apiKey |-> k, channels |-> {}])]

\* unregisterConnection that forgets this.#connections.delete
unregisterKeepsEntry(keys, conns, c) ==
  IF c \notin DOMAIN conns
    THEN [ret |-> FALSE, apiKeys |-> keys, connections |-> conns]
  ELSE LET k == conns[c].apiKey
       IN [ret |-> TRUE,
           apiKeys |-> IF k \in DOMAIN keys
                       THEN [keys EXCEPT ![k].connections = @ \ {c}] ELSE keys,
           connections |-> conns]

\* unregisterConnection(connectionId).  Returns [ret, apiKeys, connections].
unregisterConnection(keys, conns, c) ==
  IF c \notin DOMAIN conns
    THEN [ret |-> FALSE, apiKeys |-> keys, connections |-> conns]
  ELSE LET k == conns[c].apiKey
       IN [ret |-> TRUE,
           apiKeys |-> IF k \in DOMAIN keys
                       THEN [keys EXCEPT ![k].connections = @ \ {c}] ELSE keys,
           connections |-> MapDelete(conns, c)]

\* a subscribeToChannel that subscribes every registered connection
subscribeEveryone(conns, c, ch) ==
  IF c \notin DOMAIN conns THEN [err |-> "ValidationError", connections |-> conns]
  ELSE IF ch = "" THEN [err |-> "ValidationError", connections |-> conns]
  ELSE [err |-> "none",
        connections |-> [x \in DOMAIN conns |-> [conns[x] EXCEPT !.channels = @ \cup {ch}]]]

\* subscribeToChannel(connectionId, channel).  Returns [err, connections].
subscribeToChannel(conns, c, ch) ==
  IF c \notin DOMAIN conns THEN [err |-> "ValidationError", connections |-> conns]
  ELSE IF ch = "" THEN [err |-> "ValidationError", connections |-> conns]
  ELSE [err |-> "none", connections |-> [conns EXCEPT ![c].channels = @ \cup {ch}]]

\* an unsubscribeFromChannel that drops every subscription of the connection
unsubscribeClears(conns, c, ch) ==
  IF c \notin DOMAIN conns THEN [ret |-> FALSE, connections |-> conns]
  ELSE [ret |-> TRUE, connections |-> [conns EXCEPT ![c].channels = {}]]

\* unsubscribeFromChannel(connectionId, channel).  Returns [ret, connections].
unsubscribeFromChannel(conns, c, ch) ==
  IF c \notin DOMAIN conns THEN [ret |-> FALSE, connections |-> conns]
  ELSE [ret |-> TRUE, connections |-> [conns EXCEPT ![c].channels = @ \ {ch}]]

\* getConnectionsByChannel(channel): the ids of the map entries subscribed to ch
getConnectionsByChannel(conns, ch) ==
  {c \in DOMAIN conns : ch \in conns[c].channels}

\* the connections attributed to key k, each with its subscriptions
OwnedBy(conns, k) ==
  [c \in {x \in DOMAIN conns : conns[x].apiKey = k} |-> conns[c].channels]

\* updateNotificationStats(apiKey)
updateNotificationStats(keys, k) ==
  IF k \in DOMAIN keys THEN [keys EXCEPT ![k].totalNotifications = @ + 1] ELSE keys

\* revokeApiKey that only deletes the key
revokeKeepsConnections(keys, conns, k) ==
  IF k \notin DOMAIN keys
    THEN [err |-> "ValidationError", apiKeys |-> keys, connections |-> conns]
  ELSE [err |-> "none", apiKeys |-> MapDelete(keys, k), connections |-> conns]

\* revokeApiKey(apiKey).  Returns [err, apiKeys, connections].
revokeApiKey(keys, conns, k) ==
  IF k \notin DOMAIN keys
    THEN [err |-> "ValidationError", apiKeys |-> keys, connections |-> conns]
  ELSE [err |-> "none",
        apiKeys |-> MapDelete(keys, k),
        connections |-> [x \in (DOMAIN conns) \ keys[k].connections |-> conns[x]]]

(***************************************************************************)
(* NotificationService                                                     *)
(***************************************************************************)

\* the subscribers of the channel, the excluded one among them
TargetsAll(conns, n) == getConnectionsByChannel(conns, n.channel)

\* the connections #processNotification sends to: the subscribers of the
\* channel except metadata.excludeConnection
Targets(conns, n) ==
  {c \in getConnectionsByChannel(conns, n.channel) :
     ~(n.metadata.excludeConnection # NoConnection /\ c = n.metadata.excludeConnection)}

\* #processNotification that calls sendToConnection even without a subscriber
processUnconditionally(conns, ws, item) ==
  IF ~ws
    THEN IF item.attempts < RetryAttempts THEN "retry" ELSE "dropped"
  ELSE "sent"

\* #processNotification up to its first suspension.  sendToConnection throws
\* 'WebSocket server not initialized' when #wsServer is null, which is the
\* item-level failure; with a server it returns a per-connection result.
\*   "noSubscribers": returned at once      "sent": results collected
\*   "retry": failed, attempts < retryAttempts, so attempts++ and sleep
\*   "dropped": failed and not retried
processNotification(conns, ws, item) ==
  IF getConnectionsByChannel(conns, item.notification.channel) = {} THEN "noSubscribers"
  ELSE IF Targets(conns, item.notification) # {} /\ ~ws
    THEN IF item.attempts < RetryAttempts THEN "retry" ELSE "dropped"
  ELSE "sent"

\* one more call of #processNotification, counted for notification 1
CountUp(proc, id) ==
  IF id = 1 /\ proc < MaxProcessed THEN proc + 1 ELSE proc

\* for (const item of batch) await this.#processNotification(item), run until
\* the loop suspends on a timer: the retry delay of a failed item, or the
\* sleep(10) after the batch.  Returns [pc, batch, cur, processed].
RECURSIVE RunItems(_, _, _, _)
RunItems(batch, conns, ws, proc) ==
  IF batch = <<>>
    THEN [pc |-> "yield", batch |-> <<>>, cur |-> <<>>, processed |-> proc]
  ELSE LET item == Head(batch)
           out == processNotification(conns, ws, item)
       IN IF out = "retry"
            THEN [pc |-> "retry", batch |-> Tail(batch),
                  cur |-> <<[item EXCEPT !.attempts = @ + 1]>>,
                  processed |-> CountUp(proc, item.id)]
          ELSE RunItems(Tail(batch), conns, ws, CountUp(proc, item.id))

\* #processQueue from the head of its while loop to the next timer, or to its
\* exit.  Returns [pc, batch, cur, processed, queue].
processQueue(q, t, conns, ws, proc) ==
  IF q = <<>>
    THEN [pc |-> "idle", batch |-> <<>>, cur |-> <<>>, processed |-> proc, queue |-> q]
  ELSE LET d == dequeueBatch(q, Undefined, t)
           r == RunItems(d.items, conns, ws, proc)
       IN [pc |-> r.pc, batch |-> r.batch, cur |-> r.cur,
           processed |-> r.processed, queue |-> d.queue]

\* a sendToConnection that finds no client
sendToNobody(cl, ws, c, n) == IF ~ws THEN "throw" ELSE "notConnected"

\* sendToConnection(connectionId, notification): "throw" without a server
\* reference, "notConnected" when the server has no open socket under this
\* id, "failed" when JSON.stringify throws inside the try block (the error
\* is caught and returned), else "sent" (client.send)
sendToConnection(cl, ws, c, n) ==
  IF ~ws THEN "throw"
  ELSE IF c \notin DOMAIN cl THEN "notConnected"
  ELSE IF cl[c].readyState # "OPEN" THEN "notConnected"
  ELSE IF n.data = Cyclic THEN "failed"
  ELSE "sent"

\* the message sendToConnection writes
NotificationMessage(n) == [id |-> n.id, channel |-> n.channel, data |-> n.data]

\* a send loop that gives up at a failure: nobody gets n unless everybody can
SendAllOrNothing(out, cl, ws, conns, n) ==
  IF \E c \in Targets(conns, n) : sendToConnection(cl, ws, c, n) # "sent" THEN out
  ELSE [c \in DOMAIN out |->
          IF c \in Targets(conns, n) THEN Append(out[c], NotificationMessage(n)) ELSE out[c]]

\* the outboxes after #processNotification has sent n to its targets
SendToAll(out, cl, ws, conns, n) ==
  [c \in DOMAIN out |->
     IF c \in Targets(conns, n) /\ sendToConnection(cl, ws, c, n) = "sent"
       THEN Append(out[c], NotificationMessage(n))
       ELSE out[c]]

\* the outboxes after the for loop of #processQueue has run over the batch
\* up to the timer at which RunItems stops
RECURSIVE Deliveries(_, _, _, _, _)
Deliveries(batch, conns, ws, cl, out) ==
  IF batch = <<>> THEN out
  ELSE LET item == Head(batch)
           res == processNotification(conns, ws, item)
       IN IF res = "retry" THEN out
          ELSE IF res = "sent"
            THEN Deliveries(Tail(batch), conns, ws, cl,
                            SendToAll(out, cl, ws, conns, item.notification))
          ELSE Deliveries(Tail(batch), conns, ws, cl, out)

\* the outboxes after #processQueue has run from the head of its while loop to
\* the next timer
processQueueSends(q, t, conns, ws, cl, out) ==
  IF q = <<>> THEN out
  ELSE Deliveries(dequeueBatch(q, Undefined, t).items, conns, ws, cl, out)

IdleLoop == [pc |-> "idle", batch |-> <<>>, cur |-> <<>>]

LoopOf(h) == [pc |-> h.pc, batch |-> h.batch, cur |-> h.cur]

FreeLoops == {l \in LoopIds : loops[l].pc = "idle"}

ActiveLoops == {l \in LoopIds : loops[l].pc \in {"retry", "yield"}}

\* never starting the loop
StartNever(flag) == FALSE

\* starting without looking at the flag
StartAlways(flag) == TRUE

\* if (!this.#processing), in sendNotification and again in #startProcessing
ShouldStart(flag) == ~flag

\* a call: its name and argument, the error it raised ("none": it returned),
\* what it returned, and what the caller could see before it
Op(name, arg, err, ret, pre) ==
  [op |-> name, arg |-> arg, err |-> err, ret |-> ret, pre |-> pre]

(***************************************************************************)
(* Initial state: the three singletons after construction, the API keys    *)
(* loaded from the database.                                               *)
(***************************************************************************)
Init ==
  /\ queue = <<>>
  /\ now = 0
  /\ apiKeys = [k \in KeyIds |->
                  [connections |-> {}, totalConnections |-> 0, totalNotifications |-> 0]]
  /\ connections = [c \in {} |-> [apiKey |-> "", channels |-> {}]]
  /\ wsServer = FALSE
  /\ processing = FALSE
  /\ loops = [l \in LoopIds |-> IdleLoop]
  /\ nextId = 0
  /\ processed = 0
  /\ unhandled = FALSE
  /\ lastOp = Op("init", 0, "none", 0, 0)
  /\ clients = [c \in {} |-> [readyState |-> "OPEN", isAlive |-> TRUE, isAuthenticated |-> FALSE]]
  /\ closed = {}
  /\ outbox = [c \in ConnIds |-> <<>>]
  /\ revokedConns = {}
  /\ mongoConnection = [isConnected |-> FALSE, isConnecting |-> FALSE,
                        connectionAttempts |-> 0, reconnectTimer |-> NoTimer]
  /\ mongoose = [readyState |-> "disconnected", connects |-> 0, disconnects |-> 0,
                 listening |-> FALSE]
  /\ timers = EmptyBag
  /\ disconnectDone = FALSE

(***************************************************************************)
(* The clock and the queue's own entry points                              *)
(***************************************************************************)
Tick ==
  /\ ~unhandled
  /\ now < MaxTime
  /\ now' = now + 1
  /\ UNCHANGED <<mongoVars, queue, registryVars, engineVars, lastOp, serverVars>>

\* the setInterval callback of #startCleanupJob
CleanupJob ==
  /\ ~unhandled
  /\ queue' = FilterUnexpired(queue, now)
  /\ UNCHANGED <<mongoVars, now, registryVars, engineVars, lastOp, serverVars>>

\* notificationQueue.enqueue(notification) called directly
Enqueue(n) ==
  /\ ~unhandled
  /\ LET e == enqueue(queue, n, now)
     IN /\ e.pushed => nextId < MaxIds
        /\ queue' = e.queue
        /\ nextId' = IF e.pushed THEN nextId + 1 ELSE nextId
        /\ lastOp' = Op("enqueue", n.id, e.err, e.pushed, Len(queue))
  /\ UNCHANGED <<mongoVars, now, registryVars, wsServer, processing, loops, processed, unhandled, serverVars>>

\* notificationQueue.dequeue() called directly
Dequeue ==
  /\ ~unhandled
  /\ LET d == dequeue(queue, now)
     IN /\ queue' = d.queue
        /\ lastOp' = Op("dequeue", 0, "none", d.items, [at |-> now, size |-> Len(queue)])
  /\ UNCHANGED <<mongoVars, now, registryVars, engineVars, serverVars>>

\* notificationQueue.dequeueBatch(size) called directly
DequeueBatch(size) ==
  /\ ~unhandled
  /\ LET d == dequeueBatch(queue, size, now)
     IN /\ queue' = d.queue
        /\ lastOp' = Op("dequeueBatch", size, "none", d.items,
                         [at |-> now, size |-> Len(queue)])
  /\ UNCHANGED <<mongoVars, now, registryVars, engineVars, serverVars>>

\* notificationQueue.peek() called directly
Peek ==
  /\ ~unhandled
  /\ lastOp' = Op("peek", 0, "none", peek(queue), 0)
  /\ UNCHANGED <<mongoVars, queue, now, registryVars, engineVars, serverVars>>

\* notificationQueue.getStats() called directly
GetStats ==
  /\ ~unhandled
  /\ lastOp' = Op("getStats", 0, "none", getStats(queue, now), 0)
  /\ UNCHANGED <<mongoVars, queue, now, registryVars, engineVars, serverVars>>

(***************************************************************************)
(* The delivery engine                                                     *)
(***************************************************************************)
SetWebSocketServer ==
  /\ ~unhandled
  /\ wsServer' = TRUE
  /\ UNCHANGED <<mongoVars, queue, now, registryVars, processing, loops, nextId, processed, unhandled, lastOp, serverVars>>

\* the checks of sendNotification without validateApiKey
SubmitErrorNoKey(channel, data, apiKey) ==
  IF channel = "" THEN "ValidationError"
  ELSE IF data = NoData THEN "ValidationError"
  ELSE "none"

\* what sendNotification throws before it builds the notification
SubmitError(channel, data, apiKey) ==
  IF validateApiKey(apiKeys, apiKey) # "none" THEN validateApiKey(apiKeys, apiKey)
  ELSE IF channel = "" THEN "ValidationError"
  ELSE IF data = NoData THEN "ValidationError"
  ELSE "none"

\* sendNotification / broadcastToChannel: the whole call, which runs the new
\* loop up to its first timer when it starts one
SendNotification(channel, data, priority, apiKey, excl) ==
  /\ ~unhandled
  /\ LET n == [id |-> nextId + 1,
               channel |-> channel,
               data |-> data,
               priority |-> IF priority = Undefined \/ priority = 0
                            THEN DefaultPriority ELSE priority,
               metadata |-> [apiKey |-> apiKey, excludeConnection |-> excl]]
         pre == SubmitError(channel, data, apiKey)
         e == enqueue(queue, n, now)
         err == IF pre # "none" THEN pre ELSE e.err
         start == err = "none" /\ ShouldStart(processing) /\ FreeLoops # {}
         l == CHOOSE x \in FreeLoops : \A y \in FreeLoops : x <= y
         h == processQueue(e.queue, now, connections, wsServer, processed)
     IN /\ err = "none" => nextId < MaxIds
        /\ lastOp' = Op("submit",
                         [channel |-> channel, data |-> data, priority |-> priority,
                          apiKey |-> apiKey, excludeConnection |-> excl],
                         err, IF err = "none" THEN n.id ELSE 0, Len(queue))
        /\ nextId' = IF err = "none" THEN nextId + 1 ELSE nextId
        /\ apiKeys' = IF err = "none" THEN updateNotificationStats(apiKeys, apiKey)
                      ELSE apiKeys
        /\ queue' = IF err # "none" THEN queue ELSE IF start THEN h.queue ELSE e.queue
        /\ processing' = IF start THEN TRUE ELSE processing
        /\ loops' = IF start THEN [loops EXCEPT ![l] = LoopOf(h)] ELSE loops
        /\ processed' = IF start THEN h.processed ELSE processed
        /\ outbox' = IF start
                      THEN processQueueSends(e.queue, now, connections, wsServer, clients, outbox)
                      ELSE outbox
  /\ UNCHANGED <<mongoVars, now, connections, revokedConns, wsServer, unhandled, clients, closed>>

\* the sleep(10) between batches is over: the while condition, then the next
\* batch or the exit
YieldDone(l) ==
  /\ ~unhandled
  /\ loops[l].pc = "yield"
  /\ LET h == processQueue(queue, now, connections, wsServer, processed)
     IN /\ queue' = h.queue
        /\ loops' = [loops EXCEPT ![l] = LoopOf(h)]
        /\ processed' = h.processed
        /\ processing' = IF h.pc = "idle" THEN FALSE ELSE processing
        /\ outbox' = processQueueSends(queue, now, connections, wsServer, clients, outbox)
  /\ UNCHANGED <<mongoVars, now, registryVars, wsServer, nextId, unhandled, lastOp, clients, closed>>

\* the retry delay is over: notificationQueue.enqueue(notification) inside the
\* catch block.  What it throws rejects #processNotification and with it
\* #processQueue, which nobody awaits: an unhandled rejection, after which
\* the process shuts down (server.js).
RetryDone(l) ==
  /\ ~unhandled
  /\ loops[l].pc = "retry"
  /\ LET e == enqueue(queue, loops[l].cur[1].notification, now)
         r == RunItems(loops[l].batch, connections, wsServer, processed)
     IN IF e.err # "none"
          THEN /\ loops' = [loops EXCEPT ![l].pc = "dead"]
               /\ unhandled' = TRUE
               /\ UNCHANGED <<queue, processed, outbox>>
          ELSE /\ queue' = e.queue
               /\ loops' = [loops EXCEPT ![l] = [pc |-> r.pc, batch |-> r.batch, cur |-> r.cur]]
               /\ processed' = r.processed
               /\ outbox' = Deliveries(loops[l].batch, connections, wsServer, clients, outbox)
               /\ UNCHANGED unhandled
  /\ UNCHANGED <<mongoVars, now, registryVars, wsServer, processing, nextId, lastOp, clients, closed>>

(***************************************************************************)
(* The registry's entry points                                             *)
(***************************************************************************)
RegisterConnection(c, k) ==
  /\ ~unhandled
  /\ LET r == registerConnection(apiKeys, connections, c, k)
     IN /\ \A x \in DOMAIN r.apiKeys : r.apiKeys[x].totalConnections <= MaxTotalConnections
        /\ apiKeys' = r.apiKeys
        /\ connections' = r.connections
        /\ lastOp' = Op("registerConnection", <<c, k>>, r.err, r.err = "none", 0)
  /\ UNCHANGED <<mongoVars, queue, now, revokedConns, engineVars, serverVars>>

UnregisterConnection(c) ==
  /\ ~unhandled
  /\ LET r == unregisterConnection(apiKeys, connections, c)
     IN /\ apiKeys' = r.apiKeys
        /\ connections' = r.connections
        /\ lastOp' = Op("unregisterConnection", c, "none", r.ret,
                         IF c \in DOMAIN connections THEN connections[c].channels ELSE {})
  /\ UNCHANGED <<mongoVars, queue, now, revokedConns, engineVars, serverVars>>

SubscribeToChannel(c, ch) ==
  /\ ~unhandled
  /\ LET r == subscribeToChannel(connections, c, ch)
     IN /\ connections' = r.connections
        /\ lastOp' = Op("subscribeToChannel", <<c, ch>>, r.err, r.err = "none", 0)
  /\ UNCHANGED <<mongoVars, queue, now, apiKeys, revokedConns, engineVars, serverVars>>

UnsubscribeFromChannel(c, ch) ==
  /\ ~unhandled
  /\ LET r == unsubscribeFromChannel(connections, c, ch)
     IN /\ connections' = r.connections
        /\ lastOp' = Op("unsubscribeFromChannel", <<c, ch>>, "none", r.ret, 0)
  /\ UNCHANGED <<mongoVars, queue, now, apiKeys, revokedConns, engineVars, serverVars>>

RevokeApiKey(k) ==
  /\ ~unhandled
  /\ LET r == revokeApiKey(apiKeys, connections, k)
     IN /\ apiKeys' = r.apiKeys
        /\ connections' = r.connections
        /\ lastOp' = Op("revokeApiKey", k, r.err, r.err = "none", OwnedBy(connections, k))
        /\ revokedConns' = IF r.err = "none"
                            THEN revokedConns \cup DOMAIN OwnedBy(connections, k)
                            ELSE revokedConns
  /\ UNCHANGED <<mongoVars, queue, now, engineVars, serverVars>>

(***************************************************************************)
(* NotificationWebSocketServer (wsServer.js).  A socket is                 *)
(* [readyState, isAlive, isAuthenticated]: the ws object's readyState and  *)
(* isAlive, and the isAuthenticated variable of the #handleConnection      *)
(* closure (its apiKey variable is only ever logged).  A socket the server *)
(* has closed is "CLOSING" until its 'close' event; frames the client sent *)
(* before it saw the close frame are still emitted as 'message' events.    *)
(***************************************************************************)
\* a message the server writes to a socket
Reply(type, ok, error, channel, timestamp) ==
  [type |-> type, success |-> ok, error |-> error, channel |-> channel,
   timestamp |-> timestamp]

\* #sendMessage(ws, data): what reaches the wire
sendMessage(ws, data) == IF ws.readyState = "OPEN" THEN <<data>> ELSE <<>>

\* an error handler that only logs
handleErrorSilently(err, ws) == <<>>

\* ErrorHandler.handleWebSocketError(error, ws, context): what reaches the wire
handleWebSocketError(err, ws) ==
  IF ws.readyState = "OPEN" THEN <<Reply("error", FALSE, err, "", 0)>> ELSE <<>>

\* #handleAuthenticate.  Returns [err, replies, apiKeys, connections, ws].
handleAuthenticate(keys, conns, ws, c, k) ==
  LET r == registerConnection(keys, conns, c, k)
  IN IF r.err = "none"
       THEN [err |-> "none",
             replies |-> sendMessage(ws, Reply("authenticated", TRUE, "none", "", 0)),
             apiKeys |-> r.apiKeys, connections |-> r.connections, ws |-> ws]
     ELSE [err |-> r.err,
           replies |-> sendMessage(ws, Reply("authenticated", FALSE, r.err, "", 0)),
           apiKeys |-> keys, connections |-> conns,
           ws |-> [ws EXCEPT !.readyState = "CLOSING"]]

\* #handleSubscribe.  Returns [err, replies, connections].
handleSubscribe(conns, ws, c, ch) ==
  LET r == subscribeToChannel(conns, c, ch)
  IN IF r.err = "none"
       THEN [err |-> "none",
             replies |-> sendMessage(ws, Reply("subscribed", TRUE, "none", ch, 0)),
             connections |-> r.connections]
     ELSE [err |-> r.err,
           replies |-> sendMessage(ws, Reply("subscribed", FALSE, r.err, ch, 0)),
           connections |-> conns]

\* #handleUnsubscribe: unsubscribeFromChannel never throws, so the reply is
\* always the success one.  Returns [err, replies, connections].
handleUnsubscribe(conns, ws, c, ch) ==
  LET r == unsubscribeFromChannel(conns, c, ch)
  IN [err |-> "none",
      replies |-> sendMessage(ws, Reply("unsubscribed", TRUE, "none", ch, 0)),
      connections |-> r.connections]

\* the timestamp of a pong, one tick in the past
PongStale(t) == t - 1

\* the timestamp of a pong: Date.now()
PongTimestamp(t) == t

\* the 'message' listener of #handleConnection: #handleMessage, then the
\* update of isAuthenticated, or the catch with handleWebSocketError.
\* m is [type, apiKey, channel, sentAt].
\* Returns [err, replies, apiKeys, connections, ws].
handleMessage(keys, conns, ws, c, m, t) ==
  LET same == [apiKeys |-> keys, connections |-> conns, ws |-> ws]
      fail(e) == [err |-> e, replies |-> handleWebSocketError(e, ws)] @@ same
  IN CASE m.type = "authenticate" ->
            LET a == handleAuthenticate(keys, conns, ws, c, m.apiKey)
            IN IF a.err = "none"
                 THEN [a EXCEPT !.ws.isAuthenticated = TRUE]
               ELSE [a EXCEPT !.replies = @ \o handleWebSocketError(a.err, a.ws)]
       [] m.type = "subscribe" ->
            IF ~ws.isAuthenticated THEN fail("AuthenticationError")
            ELSE LET r == handleSubscribe(conns, ws, c, m.channel)
                 IN [err |-> r.err,
                     replies |-> IF r.err = "none" THEN r.replies
                                 ELSE r.replies \o handleWebSocketError(r.err, ws),
                     apiKeys |-> keys, connections |-> r.connections, ws |-> ws]
       [] m.type = "unsubscribe" ->
            IF ~ws.isAuthenticated THEN fail("AuthenticationError")
            ELSE LET r == handleUnsubscribe(conns, ws, c, m.channel)
                 IN [err |-> "none", replies |-> r.replies,
                     apiKeys |-> keys, connections |-> r.connections, ws |-> ws]
       [] m.type = "ping" ->
            [err |-> "none",
             replies |-> sendMessage(ws, Reply("pong", TRUE, "none", "", PongTimestamp(t)))]
            @@ same
       [] OTHER -> fail("ValidationError")

\* unregisterConnection for every id of S
RECURSIVE UnregisterAll(_, _, _)
UnregisterAll(keys, conns, S) ==
  IF S = {} THEN [apiKeys |-> keys, connections |-> conns]
  ELSE LET c == CHOOSE x \in S : TRUE
           r == unregisterConnection(keys, conns, c)
       IN UnregisterAll(r.apiKeys, r.connections, S \ {c})

\* the sockets the heartbeat terminates without looking at isAlive
DeadNone(cl) == {}

\* the sockets the heartbeat terminates: ws.isAlive === false
Dead(cl) == {c \in DOMAIN cl : ~cl[c].isAlive}

\* the connection ids in the order uuidv4 hands them out
ConnSeq == <<"c1", "c2">>

\* the ids handed out so far
UsedIds == (DOMAIN clients) \cup closed

\* a new socket: #handleConnection, under the next fresh id
Connect(c) ==
  /\ ~unhandled
  /\ c \notin UsedIds
  /\ \A i \in DOMAIN ConnSeq : ConnSeq[i] = c => \A j \in 1..(i - 1) : ConnSeq[j] \in UsedIds
  /\ clients' = MapSet(clients, c,
                       [readyState |-> "OPEN", isAlive |-> TRUE, isAuthenticated |-> FALSE])
  /\ lastOp' = Op("connection", c, "none", <<Reply("connected", TRUE, "none", "", 0)>>, 0)
  /\ UNCHANGED <<mongoVars, queue, now, registryVars, engineVars, closed, outbox>>

\* a frame arrives on the socket: the 'message' listener
Message(c, m) ==
  /\ ~unhandled
  /\ c \in DOMAIN clients
  /\ LET r == handleMessage(apiKeys, connections, clients[c], c, m, now)
     IN /\ \A x \in DOMAIN r.apiKeys : r.apiKeys[x].totalConnections <= MaxTotalConnections
        /\ apiKeys' = r.apiKeys
        /\ connections' = r.connections
        /\ clients' = [clients EXCEPT ![c] = r.ws]
        /\ lastOp' = Op("message", [c |-> c, type |-> m.type, sentAt |-> m.sentAt],
                         r.err, r.replies, 0)
  /\ UNCHANGED <<mongoVars, queue, now, revokedConns, engineVars, closed, outbox>>

\* a pong frame arrives: the 'pong' listener
Pong(c) ==
  /\ ~unhandled
  /\ c \in DOMAIN clients
  /\ clients' = [clients EXCEPT ![c].isAlive = TRUE]
  /\ lastOp' = Op("pong", c, "none", 0, 0)
  /\ UNCHANGED <<mongoVars, queue, now, registryVars, engineVars, closed, outbox>>

\* the socket's 'close' event (the peer closed, or the closing handshake the
\* server started is over): #handleDisconnection
CloseEvent(c) ==
  /\ ~unhandled
  /\ c \in DOMAIN clients
  /\ LET r == unregisterConnection(apiKeys, connections, c)
     IN /\ apiKeys' = r.apiKeys
        /\ connections' = r.connections
        /\ lastOp' = Op("close", c, "none", r.ret, 0)
  /\ clients' = MapDelete(clients, c)
  /\ closed' = closed \cup {c}
  /\ UNCHANGED <<mongoVars, queue, now, revokedConns, engineVars, outbox>>

\* the setInterval callback of #startHeartbeat: terminate (with
\* #handleDisconnection) the sockets with isAlive false, clear the flag of the
\* others and ping them.  The 'close' event of a terminated socket runs
\* #handleDisconnection once more, on an id that is nowhere any more.
Heartbeat ==
  /\ ~unhandled
  /\ LET dead == Dead(clients)
         r == UnregisterAll(apiKeys, connections, dead)
     IN /\ apiKeys' = r.apiKeys
        /\ connections' = r.connections
        /\ clients' = [c \in (DOMAIN clients) \ dead |-> [clients[c] EXCEPT !.isAlive = FALSE]]
        /\ closed' = closed \cup dead
        /\ lastOp' = Op("heartbeat", 0, "none", Cardinality(dead), 0)
  /\ UNCHANGED <<mongoVars, queue, now, revokedConns, engineVars, outbox>>

(***************************************************************************)
(* Specifications                                                          *)
(***************************************************************************)
\* inputs of the queue's own specification
\* a notification with every field present, and the same with one field missing
QueuePriorities == {Undefined, MinPriority, MaxPriority, MaxPriority + 1}
Notification(i, ch, d, p) ==
  [id |-> i, channel |-> ch, data |-> d, priority |-> p,
   metadata |-> [apiKey |-> "k1", excludeConnection |-> NoConnection]]
QueueNotifications ==
  {Notification(nextId + 1, "x", Payload, p) : p \in QueuePriorities}
  \cup {Notification(0, "x", Payload, Undefined),
        Notification(nextId + 1, "", Payload, Undefined),
        Notification(nextId + 1, "x", NoData, Undefined)}
BatchSizes == {Undefined, 0, 1, MaxQueueSize}

NextQueue ==
  \/ Tick
  \/ CleanupJob
  \/ \E n \in QueueNotifications : Enqueue(n)
  \/ Dequeue
  \/ \E size \in BatchSizes : DequeueBatch(size)
  \/ GetStats
  \/ Peek

SpecQueue == Init /\ [][NextQueue]_vars

\* inputs of the engine's specification
\* a complete submission, and the same with one argument missing or wrong
Submission(ch, d, p, k, x) ==
  [channel |-> ch, data |-> d, priority |-> p, apiKey |-> k, excludeConnection |-> x]
Submissions ==
  {Submission("x", Payload, Undefined, "k1", NoConnection),
   Submission("x", Payload, MaxPriority + 1, "k1", NoConnection),
   Submission("x", Payload, 0, "k1", NoConnection),
   Submission("", Payload, Undefined, "k1", NoConnection),
   Submission("x", NoData, Undefined, "k1", NoConnection),
   Submission("x", Payload, Undefined, "", NoConnection),
   Submission("x", Payload, Undefined, "unknown", NoConnection)}
EngineConns == {"c1"}

\* The engine's specification keeps the clock still: the expiry window is
\* 24 hours against a retry delay of a second, and expiry is the subject of
\* SpecQueue.
Next ==
  \/ SetWebSocketServer
  \/ \E s \in Submissions :
        SendNotification(s.channel, s.data, s.priority, s.apiKey, s.excludeConnection)
  \/ \E l \in LoopIds : YieldDone(l)
  \/ \E l \in LoopIds : RetryDone(l)
  \/ \E c \in EngineConns : RegisterConnection(c, "k1")
  \/ \E c \in EngineConns : SubscribeToChannel(c, "x")

Spec == Init /\ [][Next]_vars

\* inputs of the registry's specification
RegistryKeys == KeyIds \cup {"", "unknown"}
RegistryConns == ConnIds
RegistryChannels == Channels \cup {""}

NextRegistry ==
  \/ \E c \in RegistryConns, k \in RegistryKeys : RegisterConnection(c, k)
  \/ \E c \in RegistryConns : UnregisterConnection(c)
  \/ \E c \in RegistryConns, ch \in RegistryChannels : SubscribeToChannel(c, ch)
  \/ \E c \in RegistryConns, ch \in RegistryChannels : UnsubscribeFromChannel(c, ch)
  \/ \E k \in RegistryKeys : RevokeApiKey(k)

SpecRegistry == Init /\ [][NextRegistry]_vars

\* inputs of the protocol's specification: the frames a client can send
Frame(type, k, ch, at) == [type |-> type, apiKey |-> k, channel |-> ch, sentAt |-> at]
ProtocolKeys == KeyIds \cup {"", "unknown"}
\* one key is revoked, the other one stays
ProtocolRevoked == {"k1"}
Frames ==
  {Frame("authenticate", k, "", 0) : k \in ProtocolKeys}
  \cup {Frame("subscribe", "", ch, 0) : ch \in {"x", ""}}
  \cup {Frame("unsubscribe", "", "x", 0), Frame("bogus", "", "", 0)}
  \cup {Frame("ping", "", "", now)}

\* the WebSocket server with the registry behind it, the clock standing still
NextProtocol ==
  \/ \E c \in ConnIds : Connect(c)
  \/ \E c \in ConnIds, m \in Frames : Message(c, m)
  \/ \E c \in ConnIds : Pong(c)
  \/ \E c \in ConnIds : CloseEvent(c)
  \/ Heartbeat
  \/ \E k \in ProtocolRevoked : RevokeApiKey(k)

SpecProtocol == Init /\ [][NextProtocol]_vars

\* inputs of the specification of the protocol under a running clock: a ping
\* is handled at the time it was sent or later
ClockFrames ==
  {Frame("authenticate", k, "", 0) : k \in {"k1", "unknown"}}
  \cup {Frame("ping", "", "", at) : at \in 0..now}

NextClock ==
  \/ Tick
  \/ \E c \in ConnIds : Connect(c)
  \/ \E c \in ConnIds, m \in ClockFrames : Message(c, m)
  \/ \E c \in ConnIds : CloseEvent(c)

SpecClock == Init /\ [][NextClock]_vars

\* inputs of the assembled server's specification
ServerFrames ==
  {Frame("authenticate", k, "", 0) : k \in KeyIds}
  \cup {Frame("subscribe", "", "x", 0)}
ServerConns == {"c1"}
\* one key is revoked, the other one stays and submits
ServerRevoked == {"k1"}
ServerSubmissions ==
  {Submission("x", Payload, Undefined, k, NoConnection) : k \in KeyIds \ ServerRevoked}

\* The assembled server (server.js): start() hands the WebSocket server to
\* the NotificationService (line 34) before it accepts anything, so every
\* other step finds the reference set; with it set sendToConnection never
\* throws and no loop is ever in its retry delay.
NextServer ==
  \/ SetWebSocketServer
  \/ \E c \in ServerConns : wsServer /\ Connect(c)
  \/ \E c \in ServerConns, m \in ServerFrames : wsServer /\ Message(c, m)
  \/ \E c \in ServerConns : wsServer /\ CloseEvent(c)
  \/ \E k \in ServerRevoked : wsServer /\ RevokeApiKey(k)
  \/ \E s \in ServerSubmissions :
        wsServer /\ SendNotification(s.channel, s.data, s.priority, s.apiKey,
                                     s.excludeConnection)
  \/ \E l \in LoopIds : YieldDone(l)

SpecServer == Init /\ [][NextServer]_vars

\* inputs of the delivery specification: two sockets that authenticate (with
\* a good or an unknown key) and subscribe, a second registry entry made
\* without a socket, and submissions with and without an excluded
\* connection, one of them with data that cannot be serialised
DeliveryFrames ==
  {Frame("authenticate", k, "", 0) : k \in {"k1", "unknown"}}
  \cup {Frame("subscribe", "", "x", 0)}
DeliverySubmissions ==
  {Submission("x", Payload, Undefined, "k1", NoConnection),
   Submission("x", Payload, Undefined, "k1", "c1"),
   Submission("x", Cyclic, Undefined, "k1", NoConnection)}
DetachedConns == {"c2"}

\* the assembled server as in NextServer, with every connection-level
\* failure of a delivery
NextDelivery ==
  \/ SetWebSocketServer
  \/ \E c \in ConnIds : wsServer /\ Connect(c)
  \/ \E c \in ConnIds, m \in DeliveryFrames : wsServer /\ Message(c, m)
  \/ \E c \in DetachedConns : wsServer /\ RegisterConnection(c, "k2")
  \/ \E c \in DetachedConns : wsServer /\ SubscribeToChannel(c, "x")
  \/ \E s \in DeliverySubmissions :
        wsServer /\ SendNotification(s.channel, s.data, s.priority, s.apiKey,
                                     s.excludeConnection)
  \/ \E l \in LoopIds : YieldDone(l)

SpecDelivery == Init /\ [][NextDelivery]_vars

\* inputs of the flood specification: submissions of the lowest and of the
\* highest priority
FloodSubmissions ==
  {Submission("x", Payload, p, "k1", NoConnection) : p \in {MinPriority, MaxPriority}}

\* the engine under a running clock, fed with notifications of two priorities
NextFlood ==
  \/ Tick
  \/ \E s \in FloodSubmissions :
        SendNotification(s.channel, s.data, s.priority, s.apiKey, s.excludeConnection)
  \/ \E l \in LoopIds : YieldDone(l)

SpecFlood == Init /\ [][NextFlood]_vars

\* inputs of the engine's specification with the clock running
EngineSubmissions ==
  {Submission("x", Payload, Undefined, "k1", NoConnection)}

\* the delivery engine with the clock running and the queue's expiry sweep
NextEngine ==
  \/ Tick
  \/ CleanupJob
  \/ SetWebSocketServer
  \/ \E s \in EngineSubmissions :
        SendNotification(s.channel, s.data, s.priority, s.apiKey, s.excludeConnection)
  \/ \E l \in LoopIds : YieldDone(l)
  \/ \E l \in LoopIds : RetryDone(l)
  \/ \E c \in EngineConns : RegisterConnection(c, "k1")
  \/ \E c \in EngineConns : SubscribeToChannel(c, "x")

SpecEngine == Init /\ [][NextEngine]_vars

(***************************************************************************)
(* MongoConnection                                                         *)
(*                                                                         *)
(* A task is a public call up to its await, the continuation after a       *)
(* driver promise has settled, a driver event, or a timeout callback.  The *)
(* driver (mongoose) is the environment: a pending connect() resolves or   *)
(* rejects, a connection that is up can be lost, and the driver emits      *)
(* 'disconnected' when its readyState changes to disconnected; whether it  *)
(* does so for a connect() that fails depends on the driver's version, so  *)
(* both outcomes are possible.  Every #attemptConnection registers the     *)
(* listeners again; the n-th copy of the 'disconnected' listener finds the *)
(* state the first one left (timer set, or attempts exhausted) and changes *)
(* nothing, so the listeners are kept as one.  A timeout is known by its   *)
(* delay; #reconnectTimer holds the delay of the timeout it refers to.     *)
(***************************************************************************)
RECURSIVE Pow(_, _)
Pow(b, e) == IF e = 0 THEN 1 ELSE b * Pow(b, e - 1)

\* the delay #scheduleReconnect computes for connectionAttempts = attempt
Backoff(attempt) == Min(InitialDelayMs * Pow(BackoffMultiplier, attempt), MaxDelayMs)

\* #scheduleReconnect: returns [mc, timers]
scheduleReconnect(mc, tm) ==
  IF mc.connectionAttempts >= MaxAttempts
    THEN [mc |-> mc, timers |-> tm]
  ELSE LET delay == Backoff(mc.connectionAttempts)
       IN [mc |-> [mc EXCEPT !.reconnectTimer = delay],
           timers |-> tm (+) SetToBag({delay})]

\* #handleDisconnection, the listener of 'disconnected': returns [mc, timers]
handleDisconnection(mc, tm) ==
  LET down == [mc EXCEPT !.isConnected = FALSE]
  IN IF ReconnectEnabled /\ down.reconnectTimer = NoTimer
       THEN scheduleReconnect(down, tm)
     ELSE [mc |-> down, timers |-> tm]

\* #attemptConnection up to `await mongoose.connect(...)`: returns
\* [mc, mongoose]
attemptConnection(mc, mg) ==
  [mc |-> [mc EXCEPT !.isConnecting = TRUE, !.connectionAttempts = @ + 1],
   mongoose |-> [mg EXCEPT !.listening = TRUE,
                           !.connects = @ + 1,
                           !.readyState = IF @ = "disconnected" THEN "connecting" ELSE @]]

\* connect() is refused: already connected, or an attempt in progress
ConnectRefused(mc) == mc.isConnected \/ mc.isConnecting

\* connect()
MongoConnect ==
  /\ disconnectDone' = FALSE
  /\ IF ConnectRefused(mongoConnection)
       THEN UNCHANGED <<mongoConnection, mongoose>>
     ELSE LET a == attemptConnection(mongoConnection, mongoose)
          IN /\ mongoConnection.connectionAttempts < MaxAttemptCount
             /\ mongoose.connects < MaxConnects
             /\ mongoConnection' = a.mc
             /\ mongoose' = a.mongoose
  /\ UNCHANGED <<timers, serviceVars>>

\* mongoose.connect() has resolved: the rest of the try block
ConnectResolved ==
  /\ mongoose.connects > 0
  /\ mongoose' = [mongoose EXCEPT !.connects = @ - 1, !.readyState = "connected"]
  /\ mongoConnection' = [mongoConnection EXCEPT !.isConnected = TRUE,
                                                !.isConnecting = FALSE,
                                                !.connectionAttempts = 0]
  /\ UNCHANGED <<timers, disconnectDone, serviceVars>>

\* mongoose.connect() has rejected: the catch block.  With emits the driver
\* has announced its return to disconnected by a 'disconnected' event first.
ConnectRejected(emits) ==
  /\ mongoose.connects > 0
  /\ mongoose.readyState # "connected"
  /\ LET ready == IF mongoose.connects = 1 THEN "disconnected" ELSE mongoose.readyState
         ev == IF emits /\ ready # mongoose.readyState
                 THEN handleDisconnection(mongoConnection, timers)
               ELSE [mc |-> mongoConnection, timers |-> timers]
         failed == [ev.mc EXCEPT !.isConnecting = FALSE]
         s == IF ReconnectEnabled THEN scheduleReconnect(failed, ev.timers)
              ELSE [mc |-> failed, timers |-> ev.timers]
     IN /\ BagCardinality(s.timers) <= MaxPendingTimers
        /\ mongoConnection' = s.mc
        /\ timers' = s.timers
        /\ mongoose' = [mongoose EXCEPT !.connects = @ - 1, !.readyState = ready]
  /\ UNCHANGED <<disconnectDone, serviceVars>>

\* the connection is lost: the driver emits 'disconnected'
ConnectionLost ==
  /\ mongoose.listening
  /\ mongoose.readyState = "connected"
  /\ LET ev == handleDisconnection(mongoConnection, timers)
     IN /\ BagCardinality(ev.timers) <= MaxPendingTimers
        /\ mongoConnection' = ev.mc
        /\ timers' = ev.timers
  /\ mongoose' = [mongoose EXCEPT !.readyState = "disconnected"]
  /\ UNCHANGED <<disconnectDone, serviceVars>>

\* the timeout with delay d expires: the callback of #scheduleReconnect
TimerFired(d) ==
  /\ BagIn(d, timers)
  /\ mongoConnection.connectionAttempts < MaxAttemptCount
  /\ mongoose.connects < MaxConnects
  /\ timers' = timers (-) SetToBag({d})
  /\ LET a == attemptConnection([mongoConnection EXCEPT !.reconnectTimer = NoTimer],
                                mongoose)
     IN /\ mongoConnection' = a.mc
        /\ mongoose' = a.mongoose
  /\ UNCHANGED <<disconnectDone, serviceVars>>

\* disconnect() up to `await mongoose.disconnect()`
Disconnect ==
  /\ mongoose.disconnects = 0
  /\ timers' = IF mongoConnection.reconnectTimer # NoTimer
                 THEN timers (-) SetToBag({mongoConnection.reconnectTimer})
               ELSE timers
  /\ mongoConnection' = [mongoConnection EXCEPT !.reconnectTimer = NoTimer]
  /\ mongoose' = [mongoose EXCEPT !.disconnects = @ + 1]
  /\ UNCHANGED <<disconnectDone, serviceVars>>

\* mongoose.disconnect() has resolved, after the 'disconnected' event of a
\* driver that was not disconnected: the rest of the try block
DisconnectResolved ==
  /\ mongoose.disconnects > 0
  /\ LET ev == IF mongoose.listening /\ mongoose.readyState # "disconnected"
                 THEN handleDisconnection(mongoConnection, timers)
               ELSE [mc |-> mongoConnection, timers |-> timers]
     IN /\ BagCardinality(ev.timers) <= MaxPendingTimers
        /\ mongoConnection' = [ev.mc EXCEPT !.isConnected = FALSE]
        /\ timers' = ev.timers
  /\ mongoose' = [mongoose EXCEPT !.disconnects = @ - 1, !.readyState = "disconnected"]
  /\ disconnectDone' = TRUE
  /\ UNCHANGED serviceVars

\* mongoose.disconnect() has rejected: disconnect() throws DatabaseError
DisconnectRejected ==
  /\ mongoose.disconnects > 0
  /\ mongoose' = [mongoose EXCEPT !.disconnects = @ - 1]
  /\ UNCHANGED <<mongoConnection, timers, disconnectDone, serviceVars>>

\* the delays a timeout can have
Delays == {Backoff(n) : n \in 0..MaxAttempts}

NextMongo ==
  \/ MongoConnect
  \/ ConnectResolved
  \/ \E emits \in BOOLEAN : ConnectRejected(emits)
  \/ ConnectionLost
  \/ \E d \in Delays : TimerFired(d)
  \/ Disconnect
  \/ DisconnectResolved
  \/ DisconnectRejected

SpecMongo == Init /\ [][NextMongo]_vars

(***************************************************************************)
(* Properties                                                              *)
(***************************************************************************)
\* every item a loop holds: the rest of its batch and the item it is retrying
Held(l) == loops[l].batch \o loops[l].cur

RECURSIVE HeldBy(_)
HeldBy(ls) ==
  IF ls = {} THEN <<>>
  ELSE LET l == CHOOSE x \in ls : TRUE IN Held(l) \o HeldBy(ls \ {l})

\* all items in the system, queued or held by a loop
InFlight == queue \o HeldBy(LoopIds)

DequeueOps == {"dequeue", "dequeueBatch"}

\* valid notifications a caller may pass to enqueue in the current state
ValidNotifications ==
  {Notification(nextId + 1, "x", Payload, p) :
     p \in {Undefined, MinPriority, DefaultPriority, MaxPriority}}
  \cup {InFlight[i].notification : i \in 1..Len(InFlight)}

\* C1: a notification is processed at most retryAttempts + 1 times: every
\* item-level failure counts against the cap, and at the cap the notification
\* is dropped instead of re-enqueued.
C1_ProcessedAtMostCapPlusOne == processed <= RetryAttempts + 1

\* C2: the queue never holds more than maxSize items, and at size() = maxSize
\* enqueue of a (valid) notification raises QueueFullError and leaves the queue
\* as it is, whoever calls it: a submitter or the loop's retry.
C2_CapacityExact ==
  /\ Len(queue) <= MaxQueueSize
  /\ Len(queue) = MaxQueueSize =>
       \A n \in ValidNotifications :
          /\ enqueue(queue, n, now).err = "QueueFullError"
          /\ enqueue(queue, n, now).queue = queue

\* C2 witness: a submission was refused with QueueFullError on a full queue
\* while a loop was suspended in its retry delay
C2_Witness ==
  /\ lastOp.op = "submit"
  /\ lastOp.err = "QueueFullError"
  /\ Len(queue) = MaxQueueSize
  /\ \E l \in LoopIds : loops[l].pc = "retry"

\* C3: dequeue returns a higher priority before a lower one: what a dequeue
\* (or a batch) returned is in non-increasing priority, and no item left in
\* the queue has a higher priority than a returned one.
C3_HigherPriorityFirst ==
  lastOp.op \in DequeueOps =>
    LET r == lastOp.ret
    IN /\ \A i, j \in 1..Len(r) : i < j => r[i].priority >= r[j].priority
       /\ \A i \in 1..Len(r), j \in 1..Len(queue) : queue[j].priority <= r[i].priority

\* C3 witness: a dequeue returned an item ahead of a lower-priority item
\* that was enqueued before it and is still queued, unexpired
C3_Witness ==
  /\ lastOp.op = "dequeue"
  /\ Len(lastOp.ret) = 1
  /\ \E j \in 1..Len(queue) :
        /\ queue[j].priority < lastOp.ret[1].priority
        /\ queue[j].id < lastOp.ret[1].id
        /\ queue[j].expiresAt > now

\* C4: within one priority, dequeue returns items in the order they were
\* enqueued (ids are handed out in enqueue order): returned items of equal
\* priority are in id order, and no item left in the queue with the priority of
\* a returned item was enqueued before it.
C4_FifoWithinPriority ==
  lastOp.op \in DequeueOps =>
    LET r == lastOp.ret
    IN /\ \A i, j \in 1..Len(r) :
            (i < j /\ r[i].priority = r[j].priority) => r[i].id < r[j].id
       /\ \A i \in 1..Len(r), j \in 1..Len(queue) :
            queue[j].priority = r[i].priority => r[i].id < queue[j].id

\* C4 witness: a dequeue returned the first of three items of one priority,
\* one of the other two enqueued at the same timestamp, with an item of
\* another priority enqueued in between them
C4_Witness ==
  /\ lastOp.op = "dequeue"
  /\ Len(lastOp.ret) = 1
  /\ \E j, k \in 1..Len(queue) :
        /\ j < k
        /\ queue[j].priority = lastOp.ret[1].priority
        /\ queue[k].priority = lastOp.ret[1].priority
        /\ queue[j].enqueuedAt = lastOp.ret[1].enqueuedAt
        /\ queue[k].id > queue[j].id + 1

\* C5: dequeue and dequeueBatch return no item whose expiresAt has passed at
\* the time of the call.
C5_NoExpiredReturned ==
  lastOp.op \in DequeueOps =>
    \A i \in 1..Len(lastOp.ret) : lastOp.ret[i].expiresAt > lastOp.pre.at

\* C5 witness: a dequeue found an expired item still queued (no sweep had
\* removed it), discarded it and returned an unexpired one
C5_Witness ==
  /\ lastOp.op = "dequeue"
  /\ Len(lastOp.ret) = 1
  /\ Len(queue) + 1 < lastOp.pre.size

\* C6: at most one processing loop is active, it runs under the processing
\* flag, and no notification is held twice (by two loops, twice by one, or by a
\* loop while it is also queued).
C6_SingleFlight ==
  /\ Cardinality(ActiveLoops) <= 1
  /\ ActiveLoops # {} => processing
  /\ \A i, j \in 1..Len(InFlight) : InFlight[i].id = InFlight[j].id => i = j

\* C6 witness: a submission was accepted while the loop was suspended, and
\* its notification waits in the queue for that loop
C6_Witness ==
  /\ lastOp.op = "submit"
  /\ lastOp.err = "none"
  /\ Cardinality(ActiveLoops) = 1
  /\ \E i \in 1..Len(queue) : queue[i].id = lastOp.ret

\* C7: no notification stays queued with no loop to drain it: whenever the
\* queue is not empty a processing loop is running.
C7_QueuedImpliesLoop == queue # <<>> => ActiveLoops # {}

\* C8: an item-level failure never escapes the processing loop as an
\* unhandled error, also when the queue is full at the re-enqueue.
C8_FailureContained == ~unhandled

\* C9: connectionsForChannel(ch) holds only ids of the live-connection map
\* that are subscribed to ch, and after unregisterConnection(c) it does not
\* hold c for any channel.
C9_ChannelIndexLive ==
  /\ \A ch \in Channels : \A c \in getConnectionsByChannel(connections, ch) :
        c \in DOMAIN connections /\ ch \in connections[c].channels
  /\ lastOp.op = "unregisterConnection" =>
        \A ch \in Channels : lastOp.arg \notin getConnectionsByChannel(connections, ch)

\* C9 witness: unregisterConnection removed a connection that was subscribed
C9_Witness ==
  /\ lastOp.op = "unregisterConnection"
  /\ lastOp.ret = TRUE
  /\ lastOp.pre # {}

\* C10: a revokeApiKey(k) that succeeds leaves no connection owned by k in the
\* live-connection map or in connectionsForChannel of any channel; on an
\* unknown key it raises ValidationError and changes nothing.
C10_RevokeRemovesOwned ==
  [][lastOp'.op = "revokeApiKey" =>
       IF lastOp'.err = "none"
       THEN \A c \in DOMAIN connections :
              connections[c].apiKey = lastOp'.arg =>
                /\ c \notin DOMAIN connections'
                /\ \A ch \in Channels : c \notin getConnectionsByChannel(connections', ch)
       ELSE /\ lastOp'.err = "ValidationError"
            /\ lastOp'.arg \notin DOMAIN apiKeys
            /\ UNCHANGED <<apiKeys, connections>>]_vars

\* C10 witness: a revocation succeeded for a key that owned a subscribed
\* connection
C10_Witness ==
  /\ lastOp.op = "revokeApiKey"
  /\ lastOp.err = "none"
  /\ \E c \in DOMAIN lastOp.pre : lastOp.pre[c] # {}

\* the connection was attributed to the key that the last call revoked
RevokedOwner(c) ==
  /\ lastOp.op = "revokeApiKey"
  /\ lastOp.err = "none"
  /\ c \in DOMAIN lastOp.pre

\* the server still holds an open socket under this id
OpenSocket(c) == c \in DOMAIN clients /\ clients[c].readyState = "OPEN"

\* C11: once revokeKey(k) has returned, no connection that was owned by k is
\* an open socket of the server any more: each is TERMINATED, its socket
\* closed and gone from the server's open connections.
C11_RevokedTerminated ==
  \A c \in ConnIds : RevokedOwner(c) => ~OpenSocket(c)

\* C12: once revokeKey(k) has returned, no step of the server (a submission
\* that runs the loop, a batch after the inter-batch sleep) writes a
\* notification message to a connection that was owned by k.
C12_NoDeliveryAfterRevoke ==
  [][\A c \in revokedConns : outbox'[c] = outbox[c]]_vars

\* the active count of key k: client.connections.size
ActiveCount(keys, k) == Cardinality(keys[k].connections)

\* no key has more connections than the per-key maximum, counted in its own
\* connection set or in the connection map
WithinLimit ==
  \A k \in DOMAIN apiKeys :
    /\ ActiveCount(apiKeys, k) <= MaxClientsPerApiKey
    /\ Cardinality(DOMAIN OwnedBy(connections, k)) <= MaxClientsPerApiKey

\* C13: no key ever has more than the per-key maximum of registered
\* connections; registerConnection on a key at its maximum raises
\* ValidationError, and on an unknown key AuthenticationError, and both leave
\* the connection map and every key (connection set, lifetime counter) as
\* they were.
C13_PerKeyLimit ==
  [][/\ WithinLimit'
     /\ lastOp'.op = "registerConnection" =>
          LET k == lastOp'.arg[2]
          IN /\ k \notin DOMAIN apiKeys =>
                  /\ lastOp'.err = "AuthenticationError"
                  /\ UNCHANGED <<apiKeys, connections>>
             /\ (k \in DOMAIN apiKeys /\ ActiveCount(apiKeys, k) >= MaxClientsPerApiKey) =>
                  /\ lastOp'.err = "ValidationError"
                  /\ UNCHANGED <<apiKeys, connections>>]_vars

\* a registration was refused on a key that has its maximum of connections,
\* all of them registered
C13_Witness ==
  /\ lastOp.op = "registerConnection"
  /\ lastOp.err = "ValidationError"
  /\ Cardinality(DOMAIN OwnedBy(connections, lastOp.arg[2])) = MaxClientsPerApiKey

\* C14: unregisterConnection on an id the registry does not hold returns
\* false, raises nothing and changes nothing; on an id it holds it returns
\* true, removes that connection and no other, and takes exactly one off the
\* active count of the owning key and nothing off the others.
C14_UnregisterIdempotent ==
  [][lastOp'.op = "unregisterConnection" =>
       LET c == lastOp'.arg
       IN /\ lastOp'.err = "none"
          /\ c \notin DOMAIN connections =>
               /\ lastOp'.ret = FALSE
               /\ UNCHANGED <<apiKeys, connections>>
          /\ c \in DOMAIN connections =>
               /\ lastOp'.ret = TRUE
               /\ connections' = MapDelete(connections, c)
               /\ DOMAIN apiKeys' = DOMAIN apiKeys
               /\ connections[c].apiKey \in DOMAIN apiKeys
               /\ \A k \in DOMAIN apiKeys :
                    ActiveCount(apiKeys', k) =
                      IF k = connections[c].apiKey
                      THEN ActiveCount(apiKeys, k) - 1 ELSE ActiveCount(apiKeys, k)]_vars

\* an unregistration of an id the registry does not hold, while it holds
\* another connection
C14_Witness ==
  /\ lastOp.op = "unregisterConnection"
  /\ lastOp.ret = FALSE
  /\ lastOp.arg \notin DOMAIN connections
  /\ connections # <<>>

\* the step handles a frame of this type on connection c
Handles(c, type) ==
  /\ lastOp'.op = "message"
  /\ lastOp'.arg.c = c
  /\ lastOp'.arg.type = type

\* connection c is CONNECTED: an open socket that has not authenticated
Connected(c) ==
  /\ OpenSocket(c)
  /\ ~clients[c].isAuthenticated

\* the socket of connection c was closed by a failed authentication
AuthFailed(c) ==
  /\ c \in DOMAIN clients
  /\ clients[c].readyState = "CLOSING"
  /\ ~clients[c].isAuthenticated

\* a failing authenticate on a CONNECTED connection is answered with
\* authenticated{success:false} and closes the socket, and the connection is
\* neither authenticated nor in the registry afterwards
FailedAuthenticateCloses ==
  \A c \in DOMAIN clients :
    (Connected(c) /\ Handles(c, "authenticate") /\ lastOp'.err # "none") =>
      /\ lastOp'.ret = <<Reply("authenticated", FALSE, lastOp'.err, "", 0)>>
      /\ clients'[c].readyState = "CLOSING"
      /\ ~clients'[c].isAuthenticated
      /\ c \notin DOMAIN connections'
      /\ UNCHANGED <<apiKeys, connections>>

\* C15: a failing authenticate (unknown key, malformed key, key at its
\* capacity) sent by a CONNECTED connection is answered with
\* authenticated{success:false} and closes the socket, and from then on the
\* connection never becomes authenticated and never has a registry entry.
C15_FailedAuthenticate ==
  [][/\ FailedAuthenticateCloses
     /\ \A c \in DOMAIN clients :
          (AuthFailed(c) /\ c \in DOMAIN clients') =>
            /\ ~clients'[c].isAuthenticated
            /\ c \notin DOMAIN connections']_vars

\* C16: a failing subscribe, unsubscribe or frame of unknown type, handled on
\* an open socket, is reported on that socket (the error is the last message
\* written) and changes neither the socket, nor the protocol state of any
\* connection, nor the registry.
C16_FailureInBand ==
  [][\A c \in DOMAIN clients :
       (/\ OpenSocket(c)
        /\ lastOp'.op = "message"
        /\ lastOp'.arg.c = c
        /\ lastOp'.arg.type # "authenticate"
        /\ lastOp'.err # "none") =>
         /\ lastOp'.ret # <<>>
         /\ lastOp'.ret[Len(lastOp'.ret)] = Reply("error", FALSE, lastOp'.err, "", 0)
         /\ UNCHANGED <<clients, apiKeys, connections>>]_vars

\* a subscribe before authentication was refused and the socket is still
\* open and unauthenticated
C16_Witness ==
  /\ lastOp.op = "message"
  /\ lastOp.arg.type = "subscribe"
  /\ lastOp.err = "AuthenticationError"
  /\ Connected(lastOp.arg.c)

\* C17: a ping handled on an open socket, authenticated or not, is answered
\* with exactly one message, a pong whose timestamp is not earlier than the
\* time the ping was sent, and changes neither the sockets nor the registry.
C17_PingPong ==
  [][\A c \in DOMAIN clients :
       (OpenSocket(c) /\ Handles(c, "ping")) =>
         /\ lastOp'.err = "none"
         /\ Len(lastOp'.ret) = 1
         /\ lastOp'.ret[1].type = "pong"
         /\ lastOp'.ret[1].timestamp >= lastOp'.arg.sentAt
         /\ UNCHANGED <<clients, apiKeys, connections>>]_vars

\* an authenticated connection got its pong for a ping sent at the current
\* time, after the clock has moved
C17_Witness ==
  /\ lastOp.op = "message"
  /\ lastOp.arg.type = "ping"
  /\ lastOp.arg.sentAt = now
  /\ now > 0
  /\ OpenSocket(lastOp.arg.c)
  /\ clients[lastOp.arg.c].isAuthenticated
  /\ Len(lastOp.ret) = 1

\* the step is a firing of the heartbeat timer with sockets to look at
HeartbeatStep ==
  /\ lastOp'.op = "heartbeat"
  /\ clients' # clients

\* C20: a heartbeat tick terminates every socket whose liveness flag is still
\* clear (no pong since the tick that cleared it): it leaves the server's
\* connections and the registry; every other socket stays, as registered as
\* it was, with its flag cleared.  Between ticks only a pong changes the
\* flag, and it sets it: a connection that answers every ping is never
\* evicted, one that stops answering is gone at the second tick.
C20_HeartbeatEviction ==
  [][\A c \in DOMAIN clients :
       /\ (HeartbeatStep /\ ~clients[c].isAlive) =>
            /\ c \notin DOMAIN clients'
            /\ c \notin DOMAIN connections'
            /\ c \in closed'
       /\ (HeartbeatStep /\ clients[c].isAlive) =>
            /\ c \in DOMAIN clients'
            /\ clients'[c] = [clients[c] EXCEPT !.isAlive = FALSE]
            /\ c \in DOMAIN connections <=> c \in DOMAIN connections'
       /\ (lastOp'.op = "pong" /\ lastOp'.arg = c) => clients'[c].isAlive
       /\ (c \in DOMAIN clients' /\ clients'[c].isAlive # clients[c].isAlive) =>
            lastOp'.op \in {"pong", "heartbeat"}]_protocolVars

\* a tick has terminated a registered connection that did not answer (its
\* key has no connection left) and kept one that did
C20_Witness ==
  /\ lastOp.op = "heartbeat"
  /\ lastOp.ret = 1
  /\ Cardinality(closed) = 1
  /\ clients # <<>>
  /\ DOMAIN apiKeys = KeyIds
  /\ \A k \in KeyIds : apiKeys[k].totalConnections = 1
  /\ \E k \in KeyIds : apiKeys[k].connections = {}

\* connection c is AUTHENTICATED, open and subscribed to channel ch
Subscribed(c, ch) ==
  /\ OpenSocket(c)
  /\ clients[c].isAuthenticated
  /\ c \in DOMAIN connections
  /\ ch \in connections[c].channels

\* the ids of the notification messages in a sequence of messages or of
\* queue items
Ids(q) == {q[i].id : i \in DOMAIN q}

\* the number of messages with this id in a sequence of messages
Count(q, id) == Cardinality({i \in DOMAIN q : q[i].id = id})

\* the queue items that leave the queue in this step
Leaving == {queue[i] : i \in {j \in DOMAIN queue : queue[j].id \notin Ids(queue')}}

\* C18: a notification submitted with a valid key on channel ch, with the
\* loop idle, is written once, with its id, channel and data, to every
\* connection that is AUTHENTICATED, open and subscribed to ch, and the queue
\* is empty when the submission returns; a notification that waited in the
\* queue for a running loop is written to every such connection in the step
\* that takes it from the queue; and no connection ever gets the same
\* notification twice.
C18_DeliveredOnce ==
  [][/\ (lastOp'.op = "submit" /\ lastOp'.err = "none" /\ nextId' # nextId /\ ~processing) =>
          /\ queue' = <<>>
          /\ \A c \in ConnIds :
               Subscribed(c, lastOp'.arg.channel) =>
                 outbox'[c] = Append(outbox[c],
                                     [id |-> lastOp'.ret,
                                      channel |-> lastOp'.arg.channel,
                                      data |-> lastOp'.arg.data])
     /\ \A item \in Leaving : \A c \in ConnIds :
          Subscribed(c, item.notification.channel) =>
            /\ Count(outbox[c], item.id) = 0
            /\ Count(outbox'[c], item.id) = 1
     /\ \A c \in ConnIds : \A id \in Ids(outbox'[c]) : Count(outbox'[c], id) = 1]_vars

\* the submission has just returned: the subscribed connection holds the
\* notification as its latest message and the queue is empty
C18_Witness ==
  /\ lastOp.op = "submit"
  /\ lastOp.err = "none"
  /\ queue = <<>>
  /\ \E c \in ConnIds :
       /\ Subscribed(c, lastOp.arg.channel)
       /\ outbox[c] # <<>>
       /\ outbox[c][Len(outbox[c])] =
            [id |-> lastOp.ret, channel |-> lastOp.arg.channel, data |-> lastOp.arg.data]

\* no connection is subscribed to the channel the engine's notifications go to
NoSubscribers == getConnectionsByChannel(connections, "x") = {}

\* C19: in a step of the engine taken while the channel has no subscriber,
\* every notification that is processed is dropped: no message is written,
\* no loop goes into a retry delay or keeps an item, the items taken from the
\* queue (and a notification submitted to an idle loop) are nowhere
\* afterwards, so they never come back, and the only error such a step can
\* raise is that of a re-enqueue whose retry delay was already running.
C19_NoSubscribersDropped ==
  [][NoSubscribers =>
       /\ outbox' = outbox
       /\ unhandled' => \E l \in LoopIds : loops[l].pc = "retry" /\ loops'[l].pc = "dead"
       /\ ~unhandled' =>
            /\ \A l \in LoopIds :
                 loops'[l] # loops[l] => (loops'[l].pc \in {"idle", "yield"} /\ Held(l)' = <<>>)
            /\ \A item \in Leaving : item.id \notin Ids(InFlight')
            /\ (lastOp'.op = "submit" /\ lastOp'.err = "none" /\ nextId' # nextId /\ ~processing)
                 => lastOp'.ret \notin Ids(InFlight')
            /\ \A i \in DOMAIN queue' : queue'[i].attempts = 0]_vars

\* the first notification was processed without a WebSocket server reference
\* and with a registered connection that is not subscribed, and the queue
\* is empty
C19_Witness ==
  /\ NoSubscribers
  /\ processed = 1
  /\ ~wsServer
  /\ connections # <<>>
  /\ queue = <<>>

\* the step is a call of sendNotification that has returned or raised
SubmitReturns ==
  /\ lastOp'.op = "submit"
  /\ lastOp.op = "submit" => lastOp' # lastOp

\* the variables a submission can change, and the outcome of the last call
submitVars == <<queue, apiKeys, processing, loops, nextId, lastOp.op, lastOp.err>>

\* C21: submit raises AuthenticationError on a missing or unknown key and
\* ValidationError on a missing channel or missing data; a submit that raises
\* (these two or QueueFullError) leaves the queue, every key's counters, the
\* processing flag and the loops as they were; a submit that returns has put
\* exactly one new notification into the system, under a fresh id, counted
\* once for its key: it is appended to the queue of a running loop, or
\* handed to the loop the call starts.
C21_SubmitContract ==
  [][SubmitReturns =>
       LET a == lastOp'.arg
           id == lastOp'.ret
       IN /\ validateApiKey(apiKeys, a.apiKey) # "none" => lastOp'.err = "AuthenticationError"
          /\ (validateApiKey(apiKeys, a.apiKey) = "none" /\ (a.channel = "" \/ a.data = NoData))
               => lastOp'.err = "ValidationError"
          /\ lastOp'.err # "none" =>
               UNCHANGED <<queue, apiKeys, processing, loops, nextId>>
          /\ lastOp'.err = "none" =>
               /\ id = nextId + 1
               /\ nextId' = id
               /\ id \notin Ids(InFlight)
               /\ apiKeys' = [apiKeys EXCEPT ![a.apiKey].totalNotifications = @ + 1]
               /\ Ids(InFlight') \subseteq Ids(InFlight) \cup {id}
               /\ processing =>
                    /\ Len(queue') = Len(queue) + 1
                    /\ Ids(queue') = Ids(queue) \cup {id}
                    /\ UNCHANGED <<processing, loops>>
               /\ ~processing => processing']_submitVars

\* a submission with an unknown key was refused while notifications were
\* queued behind a running loop and the keys had counted submissions
C21_Witness ==
  /\ lastOp.op = "submit"
  /\ lastOp.err = "AuthenticationError"
  /\ lastOp.arg.apiKey = "unknown"
  /\ queue # <<>>
  /\ processing
  /\ apiKeys["k1"].totalNotifications > 1

\* the priority a submission asks for is an integer outside 1..10
OutOfRange(p) == p # Undefined /\ (p < MinPriority \/ p > MaxPriority)

\* the submission a passes the checks of the key, the channel and the data
WellFormed(a) == validateApiKey(apiKeys, a.apiKey) = "none" /\ a.channel # "" /\ a.data # NoData

\* C22: a submission that is otherwise well formed and whose priority is an
\* integer outside 1..10 raises ValidationError and enqueues nothing; every
\* queued item has a priority in 1..10; a submission without a priority is
\* enqueued with priority 5.
C22_PriorityRange ==
  [][/\ \A i \in DOMAIN queue' : queue'[i].priority \in MinPriority..MaxPriority
     /\ SubmitReturns =>
          LET a == lastOp'.arg
          IN /\ (WellFormed(a) /\ OutOfRange(a.priority)) =>
                  /\ lastOp'.err = "ValidationError"
                  /\ UNCHANGED <<queue, nextId>>
             /\ (lastOp'.err = "none" /\ a.priority = Undefined) =>
                  \A i \in DOMAIN InFlight' :
                     InFlight'[i].id = lastOp'.ret => InFlight'[i].priority = DefaultPriority]_submitVars

\* the step is an accepted submission that starts the processing loop
Started ==
  /\ lastOp'.op = "submit"
  /\ lastOp'.err = "none"
  /\ nextId' # nextId
  /\ ~processing

\* what #processNotification looks at in a notification
Processing(id, channel, data, excl) ==
  [id |-> id, channel |-> channel, data |-> data, excl |-> excl]

\* the notifications processed in this step: those of the items taken from
\* the queue, and the one submitted to an idle loop
ProcessedNow ==
  {Processing(item.id, item.notification.channel, item.notification.data,
              item.notification.metadata.excludeConnection) : item \in Leaving}
  \cup (IF Started
         THEN {Processing(lastOp'.ret, lastOp'.arg.channel, lastOp'.arg.data,
                          lastOp'.arg.excludeConnection)}
         ELSE {})

\* the connections n is for: registered, subscribed to its channel, not excluded
Recipients(n) ==
  {c \in DOMAIN connections : n.channel \in connections[c].channels /\ c # n.excl}

\* the recipients a delivery of n fails on: no socket, a socket that is not
\* open, or a write that fails
Failing(n) == {c \in Recipients(n) : ~OpenSocket(c) \/ n.data = Cyclic}

\* the variables a delivery can change
deliveryVars == <<queue, outbox, loops, nextId, unhandled>>

\* C23: when the delivery of a notification fails on some recipient (its
\* socket is missing or not open, or the write fails), nothing is raised:
\* every other recipient still gets the notification, once; the failing ones
\* get nothing; the other items of the batch are processed in the same step;
\* and the notification is neither kept for a retry nor re-enqueued.
C23_ConnectionFailureCounted ==
  [][\A n \in ProcessedNow :
       Failing(n) # {} =>
         /\ ~unhandled'
         /\ \A c \in Recipients(n) \ Failing(n) :
              Count(outbox[c], n.id) = 0 /\ Count(outbox'[c], n.id) = 1
         /\ \A c \in Failing(n) : Count(outbox'[c], n.id) = 0
         /\ n.id \notin Ids(InFlight')
         /\ \A l \in LoopIds : loops'[l].pc \in {"idle", "yield"} /\ Held(l)' = <<>>]_deliveryVars

\* a batch of two was processed after the submission of the third
\* notification: the open subscriber has all three, the subscriber without an
\* open socket has none
C23_Witness ==
  /\ lastOp.op = "submit"
  /\ lastOp.ret = 3
  /\ lastOp.pre = 1
  /\ queue = <<>>
  /\ Subscribed("c1", "x")
  /\ "c2" \in DOMAIN connections
  /\ "x" \in connections["c2"].channels
  /\ ~OpenSocket("c2")
  /\ Ids(outbox["c1"]) = {1, 2, 3}
  /\ outbox["c2"] = <<>>

\* the ids of the notifications processed in this step
ProcessedIds == {n.id : n \in ProcessedNow}

\* C24: the connection a notification excludes gets no message of that
\* notification; every other connection that is registered and subscribed to
\* its channel when it is processed, and whose socket can be written, gets
\* it once; a message is written only in the step that processes its
\* notification, and only to a connection that is registered and subscribed
\* to the notification's channel in that step.
C24_ExcludedNeverReceives ==
  [][/\ \A n \in ProcessedNow :
          /\ \A c \in ConnIds : c = n.excl => Count(outbox'[c], n.id) = 0
          /\ \A c \in Recipients(n) :
               (OpenSocket(c) /\ n.data # Cyclic) => Count(outbox'[c], n.id) = 1
          /\ \A c \in ConnIds :
               Count(outbox'[c], n.id) > 0 =>
                 /\ c \in DOMAIN connections
                 /\ n.channel \in connections[c].channels
     /\ \A c \in ConnIds : Ids(outbox'[c]) \subseteq Ids(outbox[c]) \cup ProcessedIds]_deliveryVars

\* a notification that excludes the open, subscribed connection c1 was
\* processed: the other subscriber has it, c1 has only earlier ones
C24_Witness ==
  /\ lastOp.op = "submit"
  /\ lastOp.err = "none"
  /\ lastOp.arg.excludeConnection = "c1"
  /\ Subscribed("c1", "x")
  /\ outbox["c1"] # <<>>
  /\ lastOp.ret \notin Ids(outbox["c1"])
  /\ lastOp.ret \in Ids(outbox["c2"])

\* the step is a call of dequeueBatch that has returned
BatchReturns ==
  /\ lastOp'.op = "dequeueBatch"
  /\ lastOp.op = "dequeueBatch" => lastOp' # lastOp

\* the variables the queue's entry points can change, and the last call
queueVars == <<queue, now, nextId, lastOp.op>>

\* C25: dequeueBatch(size), for a size 0, 1, 2, ..., returns at most size
\* items; what it returns is the head of the unexpired items of the queue in
\* queue order (the order repeated dequeue calls return them in), and what it
\* leaves is the rest of the unexpired items: it removes the returned and
\* the expired items and nothing else.
C25_BatchContract ==
  [][BatchReturns =>
       /\ lastOp'.arg # Undefined => Len(lastOp'.ret) <= lastOp'.arg
       /\ FilterUnexpired(queue, now) = lastOp'.ret \o queue'
       /\ \A i \in DOMAIN lastOp'.ret : lastOp'.ret[i].expiresAt > now]_queueVars

\* subscribe(c, ch) is refused: the connection is unknown or the name is empty
SubscribeRefused(c, ch) == c \notin DOMAIN connections \/ ch = ""

\* in the current registry: subscribe is refused with ValidationError and
\* without effect on an unknown connection or an empty name; otherwise it adds
\* the channel and a second subscribe changes nothing more; an unsubscribe
\* of a channel the connection does not have, or of an unknown connection,
\* changes nothing
SubscribeLaws(c, ch) ==
  LET s1 == subscribeToChannel(connections, c, ch)
      s2 == subscribeToChannel(s1.connections, c, ch)
      u == unsubscribeFromChannel(connections, c, ch)
  IN /\ SubscribeRefused(c, ch) =>
          /\ s1.err = "ValidationError"
          /\ s1.connections = connections
     /\ ~SubscribeRefused(c, ch) =>
          /\ s1.err = "none"
          /\ s1.connections = [connections EXCEPT ![c].channels = @ \cup {ch}]
          /\ s2 = s1
     /\ c \notin DOMAIN connections => (u.ret = FALSE /\ u.connections = connections)
     /\ (c \in DOMAIN connections /\ ch \notin connections[c].channels) =>
          (u.ret = TRUE /\ u.connections = connections)

\* subscribe then unsubscribe of the same channel gives back the registry
RoundTrip(c, ch) ==
  unsubscribeFromChannel(subscribeToChannel(connections, c, ch).connections, c, ch).connections
    = connections

\* C26 as stated: the laws of subscribe and unsubscribe, and subscribe
\* followed by unsubscribe of the same channel restores the previous
\* subscription set whenever the subscribe succeeds.
C26_RoundTripAlways ==
  \A c \in RegistryConns, ch \in RegistryChannels :
    /\ SubscribeLaws(c, ch)
    /\ ~SubscribeRefused(c, ch) => RoundTrip(c, ch)

\* C26, amended: subscribe is idempotent and fails with ValidationError,
\* changing nothing, on an unknown connection or an empty channel name;
\* unsubscribe raises nothing and changes nothing for an unknown connection
\* or a channel that is not subscribed; subscribe followed by unsubscribe of
\* the same channel restores the previous subscription set when the channel
\* was not subscribed before, and otherwise leaves that set without the
\* channel.
C26_SubscribeAlgebra ==
  \A c \in RegistryConns, ch \in RegistryChannels :
    /\ SubscribeLaws(c, ch)
    /\ ~SubscribeRefused(c, ch) =>
         IF ch \in connections[c].channels
         THEN unsubscribeFromChannel(subscribeToChannel(connections, c, ch).connections,
                                     c, ch).connections
                = [connections EXCEPT ![c].channels = @ \ {ch}]
         ELSE RoundTrip(c, ch)

\* an unsubscribe for a connection the registry does not hold returned false
\* while another connection holds two subscriptions
C26_Witness ==
  /\ lastOp.op = "unsubscribeFromChannel"
  /\ lastOp.ret = FALSE
  /\ lastOp.arg[1] \notin DOMAIN connections
  /\ \E c \in DOMAIN connections : connections[c].channels = Channels

\* connection c is AUTHENTICATED: an open socket that has authenticated
Authenticated(c) ==
  /\ OpenSocket(c)
  /\ clients[c].isAuthenticated

\* connection c is TERMINATED: its socket is gone, or the server has closed it
Terminated(c) ==
  \/ c \in closed
  \/ c \in DOMAIN clients /\ clients[c].readyState # "OPEN"

\* C27: the protocol state of a connection only moves forward: an
\* AUTHENTICATED connection is never CONNECTED again; a TERMINATED one stays
\* TERMINATED and gets no registry entry; a connection becomes AUTHENTICATED
\* only from CONNECTED, by an authenticate frame that registerConnection
\* accepted under a key the registry holds; and a connection with a
\* subscription has authenticated.
C27_ForwardOnly ==
  [][\A c \in ConnIds :
       /\ Authenticated(c) => ~Connected(c)'
       /\ Terminated(c) => Terminated(c)'
       /\ (Terminated(c) /\ c \notin DOMAIN connections) => c \notin DOMAIN connections'
       /\ (~Authenticated(c) /\ Authenticated(c)') =>
            /\ Connected(c)
            /\ Handles(c, "authenticate")
            /\ lastOp'.err = "none"
            /\ c \in DOMAIN connections'
            /\ connections'[c].apiKey \in DOMAIN apiKeys
       /\ (c \in DOMAIN connections' /\ connections'[c].channels # {}) =>
            (c \in DOMAIN clients' /\ clients'[c].isAuthenticated)]_protocolVars

\* the step is the handling of a frame
MessageHandled ==
  /\ lastOp'.op = "message"
  /\ lastOp.op = "message" => lastOp' # lastOp

\* the variables the handling of a frame could change, and the last call
messageVars == <<queue, apiKeys, connections, clients, closed, loops, lastOp.op, lastOp.err>>

\* m has the same entry, or no entry, under d in both states
SameEntry(m1, m2, d) ==
  /\ d \in DOMAIN m1 <=> d \in DOMAIN m2
  /\ d \in DOMAIN m1 => m1[d] = m2[d]

\* C28: the handling of a frame of connection c, whether it succeeds or
\* fails, leaves every other connection as it was (its socket with its
\* protocol state, its registry entry with its key and its subscriptions,
\* whether it is terminated) and leaves the queue and the items held by the
\* loops as they were.
C28_OtherConnectionsUntouched ==
  [][MessageHandled =>
       /\ \A d \in ConnIds \ {lastOp'.arg.c} :
            /\ SameEntry(clients, clients', d)
            /\ SameEntry(connections, connections', d)
            /\ d \in closed <=> d \in closed'
       /\ UNCHANGED <<queue, loops>>]_messageVars

\* an authenticate frame of c2 was refused (the key is at its maximum) while
\* c1 is subscribed and a notification is queued
C28_Witness ==
  /\ lastOp.op = "message"
  /\ lastOp.arg.c = "c2"
  /\ lastOp.arg.type = "authenticate"
  /\ lastOp.err = "ValidationError"
  /\ Subscribed("c1", "x")
  /\ queue # <<>>

\* the enqueue times of the queued items
EnqueueTimes == {queue[i].enqueuedAt : i \in DOMAIN queue}

\* the age of the item that has been queued longest, 0 for an empty queue
OldestAge ==
  IF queue = <<>> THEN 0
  ELSE now - (CHOOSE t \in EnqueueTimes : \A u \in EnqueueTimes : t <= u)

RECURSIVE SumOver(_, _)
SumOver(f, S) ==
  IF S = {} THEN 0
  ELSE LET x == CHOOSE y \in S : TRUE IN f[x] + SumOver(f, S \ {x})

\* C29: in every queue state getStats reports the number of queued items as
\* size, for every priority the number of queued items of that priority
\* (no entry for a priority without items), counts that sum to size, and as
\* the oldest-message age the current time minus the smallest enqueuedAt of
\* the queued items, 0 for an empty queue.
C29_StatsExact ==
  LET st == getStats(queue, now)
      dist == st.priorityDistribution
  IN /\ st.size = Len(queue)
     /\ \A p \in MinPriority..MaxPriority :
          IF p \in DOMAIN dist
          THEN dist[p] = Cardinality({i \in DOMAIN queue : queue[i].priority = p}) /\ dist[p] > 0
          ELSE \A i \in DOMAIN queue : queue[i].priority # p
     /\ DOMAIN dist \subseteq MinPriority..MaxPriority
     /\ SumOver(dist, DOMAIN dist) = st.size
     /\ st.oldestMessage = OldestAge

\* a notification submitted after this item has already left the queue
\* while the item was waiting.  Such a notification was dequeued, not
\* discarded: it expires no earlier than the item, and the expiry filter
\* removes every expired item at once.
Overtaken(item) == \E id \in (item.id + 1)..nextId : id \notin Ids(queue)

\* the variables of the queue and the clock
floodVars == <<queue, now, nextId>>

\* C30: a queued notification that was passed over in favour of
\* notifications submitted after it is not starved: when it leaves the queue
\* it is dequeued (handed to the loop, unexpired), never discarded as
\* expired without having been processed.
C30_NoStarvation ==
  [][\A item \in Leaving : Overtaken(item) => item.expiresAt > now]_floodVars

\* C31: every registered connection is attributed to exactly one API key: a
\* connection id is in the active-connection set of key k if and only if the
\* connection map holds an entry for it whose owner is k, so the active count
\* of a key is the number of live connections it owns, and the owner of
\* every entry is a key the registry holds.
C31_OneKeyPerConnection ==
  /\ \A k \in DOMAIN apiKeys : \A c \in ConnIds :
        c \in apiKeys[k].connections <=>
          (c \in DOMAIN connections /\ connections[c].apiKey = k)
  /\ \A k \in DOMAIN apiKeys :
        ActiveCount(apiKeys, k) = Cardinality(DOMAIN OwnedBy(connections, k))
  /\ \A c \in DOMAIN connections : connections[c].apiKey \in DOMAIN apiKeys

\* C32: the subscription set of a registered connection changes only through
\* a subscribe or unsubscribe frame of that connection itself (or goes with
\* the entry when the connection is removed): no other step, a repeated
\* authenticate of the connection included, adds or removes a subscription
\* of a connection that stays registered.
C32_SubscriptionsFrame ==
  [][\A c \in ConnIds :
       ( /\ c \in DOMAIN connections
         /\ c \in DOMAIN connections'
         /\ connections'[c].channels # connections[c].channels )
       => (Handles(c, "subscribe") \/ Handles(c, "unsubscribe"))]_protocolVars

\* C33: the authenticated flag the server keeps for an open connection agrees
\* with the registry in every state in which a frame of the connection can be
\* dispatched: the connection is treated as authenticated if and only if the
\* registry holds an entry for it.
C33_FlagAgreesWithRegistry ==
  \A c \in ConnIds :
    OpenSocket(c) => (clients[c].isAuthenticated <=> c \in DOMAIN connections)

\* the frame just handled came from connection c, whose socket was open
HandledOpen(c) ==
  /\ MessageHandled
  /\ lastOp'.arg.c = c
  /\ OpenSocket(c)

\* C34: every frame a client sends on an open connection is answered by
\* exactly one reply frame, whether its handling succeeds or fails.
C34_ExactlyOneReply ==
  [][\A c \in ConnIds : HandledOpen(c) => Len(lastOp'.ret) = 1]_messageVars

\* C34 without the subscribe frames whose handling fails
C34_OneReplyUnlessSubscribeFails ==
  [][\A c \in ConnIds :
       (HandledOpen(c) /\ ~(lastOp'.arg.type = "subscribe" /\ lastOp'.err # "none"))
       => Len(lastOp'.ret) = 1]_messageVars

\* the step is a call of peek that has returned
PeekReturns ==
  /\ lastOp'.op = "peek"
  /\ lastOp.op # "peek"

\* C35: peek() does not modify the queue and returns exactly the item a
\* dequeue() called right after it would return, null exactly when that
\* dequeue would return null, in every state of the queue, states with
\* expired items included.
C35_PeekIsNextDequeue ==
  [][PeekReturns =>
       /\ queue' = queue
       /\ lastOp'.ret = dequeue(queue', now').items]_queueVars

\* C35 for the queues that hold no expired item, and peek leaving the queue
\* alone in every state
C35_PeekOfLiveQueue ==
  [][PeekReturns =>
       /\ queue' = queue
       /\ FilterUnexpired(queue, now) = queue
            => lastOp'.ret = dequeue(queue', now').items]_queueVars

\* C36: whenever the processing flag is false the queue is empty.
C36_IdleMeansEmpty ==
  ~processing => queue = <<>>

\* the loop has run while the clock moved and has exited with the flag cleared
C36_Witness ==
  /\ ~processing
  /\ queue = <<>>
  /\ nextId >= 2
  /\ \A l \in LoopIds : loops[l].pc = "idle"
  /\ now > 0

\* C37: after disconnect() has completed and until connect() is called
\* again, the connection stays disconnected: isConnected is false, no
\* reconnect timer is pending and no connection attempt is started, also
\* with automatic reconnection enabled and the driver emitting 'disconnected'
\* for the explicit disconnect.
C37_DisconnectIsFinal ==
  [][disconnectDone' =>
       /\ ~mongoConnection'.isConnected
       /\ timers' = EmptyBag
       /\ mongoConnection'.reconnectTimer = NoTimer
       /\ disconnectDone => mongoose'.connects <= mongoose.connects]_mongoVars

\* the step schedules a reconnect with delay d
Scheduled(d) == CopiesIn(d, timers') > CopiesIn(d, timers)

\* the step is the expiry of a timeout with delay d, which starts an attempt
Expired(d) ==
  /\ CopiesIn(d, timers') < CopiesIn(d, timers)
  /\ mongoose'.connects > mongoose.connects

\* the step is the success of a connection attempt
AttemptSucceeded ==
  /\ mongoose'.connects < mongoose.connects
  /\ mongoose'.readyState = "connected"

\* a reconnect is scheduled only below maxAttempts, with the backoff delay of
\* the attempts counted so far, and a success resets the counter
ScheduleLaws ==
  /\ \A d \in Delays :
        Scheduled(d) =>
          /\ mongoConnection.connectionAttempts < MaxAttempts
          /\ d = Min(InitialDelayMs * Pow(BackoffMultiplier, mongoConnection.connectionAttempts),
                     MaxDelayMs)
  /\ mongoConnection.connectionAttempts >= MaxAttempts => timers' \sqsubseteq timers
  /\ AttemptSucceeded => mongoConnection'.connectionAttempts = 0

\* C38: reconnection backs off exponentially and gives up: a reconnect is
\* scheduled only while connectionAttempts is below maxAttempts, with the
\* delay min(initialDelayMs * backoffMultiplier^n, maxDelayMs) for n attempts
\* counted; the attempt a timeout starts is attempt n+1, the one its delay
\* was computed for; and a successful connection resets connectionAttempts
\* to 0.
C38_ExponentialBackoff ==
  [][/\ ScheduleLaws
     /\ \A d \in Delays :
          Expired(d) =>
            /\ mongoConnection.connectionAttempts < MaxAttempts
            /\ d = Min(InitialDelayMs * Pow(BackoffMultiplier, mongoConnection.connectionAttempts),
                       MaxDelayMs)]_mongoVars

\* C38 without the attempt numbers of the timeouts
C38_ScheduleLaws == [][ScheduleLaws]_mongoVars

\* C39: at most one connection attempt is in flight and at most one
\* reconnect timer is pending, in every state.
C39_OneAttemptOneTimer ==
  /\ mongoose.connects <= 1
  /\ BagCardinality(timers) <= 1

\* C39, its part about connect(): while connected or while an attempt is in
\* progress, no step but the expiry of a timeout starts an attempt
C39_ConnectGuard ==
  [][(ConnectRefused(mongoConnection) /\ timers' = timers)
       => mongoose'.connects <= mongoose.connects]_mongoVars

=============================================================================
